---- MODULE Spec2Model ----
(***************************************************************************)
(* Strategy-to-transducer conversion, determinization of initial           *)
(* reactions and Mealy reactions of tulip (tulip/synth.py,                  *)
(* tulip/transys/machines.py, tulip/transys/labeled_graphs.py).            *)
(*                                                                         *)
(* A strategy graph A is a networkx.DiGraph whose nodes carry a 'state'    *)
(* valuation (integer coded).  Nodes are named 1..n in the order in which  *)
(* A.nodes_iter() yields them; the synthetic initial node 'Sinit' is 0.    *)
(* A MealyMachine is a multigraph: its edges are records                   *)
(* [src, dst, key, label].                                                 *)
(***************************************************************************)
EXTENDS Integers, Sequences, FiniteSets, TLC

VARIABLES
    pc,         \* position of the caller: "start", "done", "held", "det", "reacted"
    call,       \* the entry point that ran last and its arguments
    A,          \* the strategy graph returned by the solver (or None)
    isinit,     \* the local isinit of strategy2mealy: the valuations satisfying
                \* spec.compile_init(), {} while it is not assigned
    ret,        \* what the call returned: "pending", "raise", "None", "mach"
    err,        \* which exception was raised ("" when none)
    mach,       \* the MealyMachine held by the caller
    dmach,      \* the copy returned by determinize_machine_init
    det,        \* arguments and iteration order of the determinization
    rxn         \* arguments and result of MealyMachine.reaction

vars == <<pc, call, A, isinit, ret, err, mach, dmach, det, rxn>>

----------------------------------------------------------------------------
(* Bounds of the model *)

MaxNodes == 2

MaxEdges == 2

----------------------------------------------------------------------------
(* The specification's variables: GRSpec.env_vars, GRSpec.sys_vars *)

Sinit == 0

env_vars == [e |-> [type |-> "boolean"]]

sys_vars == [s |-> [type |-> "list", values |-> <<"a", "b">>]]

EnvNames == DOMAIN env_vars

SysNames == DOMAIN sys_vars

SeqRange(q) == {q[i] : i \in 1..Len(q)}

\* the integers a solver uses for a variable of the given type
CodeDomain(t) ==
    IF t.type = "boolean" THEN {0, 1}
    ELSE IF t.type = "range" THEN t.lo..t.hi
    ELSE 0..(Len(t.values) - 1)

\* node valuations as the solver reports them: A.node[u]['state']
Valuations == [e : CodeDomain(env_vars.e), s : CodeDomain(sys_vars.s)]

create_machine_ports(spc_vars) ==
    [k \in DOMAIN spc_vars |->
        IF spc_vars[k].type = "boolean" THEN {0, 1}
        ELSE IF spc_vars[k].type = "range"
             THEN spc_vars[k].lo..spc_vars[k].hi
             ELSE SeqRange(spc_vars[k].values)]

\* str_vars of strategy2mealy: the variables whose domain is a list of strings
str_vars ==
    [k \in {n \in EnvNames \cup SysNames :
              IF n \in EnvNames THEN env_vars[n].type = "list"
                                ELSE sys_vars[n].type = "list"} |->
        IF k \in SysNames THEN sys_vars[k].values ELSE env_vars[k].values]

_int2str(label, strvars) ==
    [k \in DOMAIN label |->
        IF k \in DOMAIN strvars THEN strvars[k][label[k] + 1] ELSE label[k]]

project_dict(x, y) == [k \in {n \in DOMAIN x : n \in DOMAIN y} |-> x[k]]

----------------------------------------------------------------------------
(* Graphs *)

None == [none |-> TRUE, n |-> 0, state |-> <<>>, edges |-> {}]

Strategies ==
    {None} \cup
    UNION {{[none |-> FALSE, n |-> n, state |-> st, edges |-> E] :
              st \in [1..n -> Valuations],
              E \in {F \in SUBSET ((1..n) \X (1..n)) : Cardinality(F) <= MaxEdges}} :
           n \in 0..MaxNodes}

\* the initial conditions that differ on the valuations of the nodes of G:
\* isinit is only ever evaluated on these
InitConditions(G) == SUBSET {G.state[u] : u \in 1..G.n}

NoMach == [nodes |-> {}, initial_nodes |-> {}, inputs |-> <<>>,
           outputs |-> <<>>, edges |-> {}]

succ(m, u) == {ed \in m.edges : ed.src = u}

----------------------------------------------------------------------------
(* strategy2mealy (synth.py) *)

is_empty_none_only(G) == G.none

\* `if not A`: None and the empty graph are both falsy
is_empty(G) == G.none \/ G.n = 0

edge_label_source(G, u, v) == _int2str(G.state[u], str_vars)

\* d = _int2str(A.node[v]['state'], str_vars) for the strategy edge u -> v
edge_label(G, u, v) == _int2str(G.state[v], str_vars)

\* for u in A: for v in A.successors_iter(u): mach.add_edge(u, v, **d)
strategy_edges(G) ==
    {[src |-> p[1], dst |-> p[2], key |-> 0, label |-> edge_label(G, p[1], p[2])] :
        p \in G.edges}

seen_never(vals, init_valuations) == FALSE

\* `if vals in init_valuations: continue`
seen(vals, init_valuations) == vals \in init_valuations

eval_true(isin, var_values) == TRUE

\* eval(isinit, tmp) after tmp.update(var_values)
eval_isinit(isin, var_values) == var_values \in isin

RECURSIVE init_edges(_, _, _, _)
\* the loop `for u, d in A.nodes_iter(data=True)` from node u on, with the
\* valuations already given an initial reaction
init_edges(G, isin, u, init_valuations) ==
    IF u > G.n THEN {}
    ELSE LET var_values == G.state[u] IN
         IF seen(var_values, init_valuations)
         THEN init_edges(G, isin, u + 1, init_valuations)
         ELSE IF ~eval_isinit(isin, var_values)
         THEN init_edges(G, isin, u + 1, init_valuations)
         ELSE {[src |-> Sinit, dst |-> u, key |-> 0,
                label |-> _int2str(var_values, str_vars)]}
              \cup init_edges(G, isin, u + 1, init_valuations \cup {var_values})

has_succ_always(m, u) == TRUE

\* mach.succ.get(u) is truthy
has_succ(m, u) == succ(m, u) # {}

strategy2mealy_mach_no_initial(G, isin) ==
    [nodes |-> (1..G.n) \cup {Sinit},
     initial_nodes |-> {},
     inputs |-> create_machine_ports(env_vars),
     outputs |-> create_machine_ports(sys_vars),
     edges |-> strategy_edges(G) \cup init_edges(G, isin, 1, {})]

\* the machine as it stands when strategy2mealy reaches `if mach.succ.get('Sinit')`
strategy2mealy_mach(G, isin) ==
    [nodes |-> (1..G.n) \cup {Sinit},
     initial_nodes |-> {Sinit},
     inputs |-> create_machine_ports(env_vars),
     outputs |-> create_machine_ports(sys_vars),
     edges |-> strategy_edges(G) \cup init_edges(G, isin, 1, {})]

\* strategy2mealy(A, spec): the machine, or the exception raised
strategy2mealy(G, isin) ==
    IF is_empty(G)
    THEN [ret |-> "raise", err |-> "EmptyStrategy", mach |-> NoMach, isinit |-> {}]
    ELSE LET m == strategy2mealy_mach(G, isin) IN
         IF has_succ(m, Sinit)
         THEN [ret |-> "mach", err |-> "", mach |-> m, isinit |-> isin]
         ELSE [ret |-> "raise", err |-> "NoInitialStates", mach |-> NoMach,
               isinit |-> isin]

----------------------------------------------------------------------------
(* remove_deadends (labeled_graphs.py) *)

\* self.states.remove_from(s): the nodes, their edges, and the initial nodes among them
remove_from(m, s) ==
    [m EXCEPT !.nodes = @ \ s,
              !.initial_nodes = @ \ s,
              !.edges = {ed \in @ : ed.src \notin s /\ ed.dst \notin s}]

remove_deadends_once(m) ==
    remove_from(m, {n \in m.nodes : succ(m, n) = {}})

\* remove_deadends(): remove the nodes without successors until there are none
RECURSIVE remove_deadends(_)
remove_deadends(m) ==
    LET s == {n \in m.nodes : succ(m, n) = {}} IN
    IF s = {} THEN m ELSE remove_deadends(remove_from(m, s))

remove_nodes_from(m, s) ==
    [m EXCEPT !.nodes = @ \ s,
              !.edges = {ed \in @ : ed.src \notin s /\ ed.dst \notin s}]

RECURSIVE remove_deadends_rounds_nodes_only(_)
remove_deadends_rounds_nodes_only(m) ==
    LET s == {n \in m.nodes : succ(m, n) = {}} IN
    <<remove_nodes_from(m, s)>> \o
        (IF s = {} THEN <<>>
         ELSE remove_deadends_rounds_nodes_only(remove_nodes_from(m, s)))

RECURSIVE rounds_keeping_initial(_, _)
rounds_keeping_initial(m, left) ==
    LET s == {n \in m.nodes : succ(m, n) = {}}
        after == remove_from(m, s \ m.initial_nodes)
    IN <<after>> \o
        (IF s = {} \/ left = 0 THEN <<>>
         ELSE rounds_keeping_initial(after, left - 1))

remove_deadends_rounds_keeping_initial(m) ==
    rounds_keeping_initial(m, Cardinality(m.nodes) + 1)

\* the graph after each execution of the body of `while s`, the last of which
\* finds no node to remove
RECURSIVE remove_deadends_rounds(_)
remove_deadends_rounds(m) ==
    LET s == {n \in m.nodes : succ(m, n) = {}} IN
    <<remove_from(m, s)>> \o
        (IF s = {} THEN <<>> ELSE remove_deadends_rounds(remove_from(m, s)))

----------------------------------------------------------------------------
(* synthesize (synth.py) *)

Options == {"gr1c", "jtlv", "other"}

synthesize_keep_deadends(option, G, isin, rm_deadends) ==
    IF option \notin {"gr1c", "jtlv"}
    THEN [ret |-> "raise", err |-> "UndefinedOption", mach |-> NoMach, isinit |-> {}]
    ELSE strategy2mealy(G, isin)

\* synthesize(option, specs, env=None, sys=None, rm_deadends=...), the solver
\* returning the strategy G
synthesize(option, G, isin, rm_deadends) ==
    IF option \notin {"gr1c", "jtlv"}
    THEN [ret |-> "raise", err |-> "UndefinedOption", mach |-> NoMach, isinit |-> {}]
    ELSE LET ctrl == strategy2mealy(G, isin) IN
         \* an exception of strategy2mealy is not caught; it returns nothing
         \* but a MealyMachine, so `return None` is never reached
         IF ctrl.ret # "mach" THEN ctrl
         ELSE IF rm_deadends
              THEN [ctrl EXCEPT !.mach = remove_deadends(ctrl.mach)]
              ELSE ctrl

----------------------------------------------------------------------------
(* determinize_machine_init (synth.py) *)

\* the orders in which mach.edges_iter(['Sinit'], ...) may yield the edges S
Orders(S) ==
    {q \in [1..Cardinality(S) -> S] :
        \A i, j \in 1..Cardinality(S) : i # j => q[i] # q[j]}

\* given_ports = tuple(k for k in mach.outputs if k in init_out_values)
given_ports(m, init_out_values) ==
    {k \in DOMAIN m.outputs : k \in DOMAIN init_out_values}

disagrees_never(d, ports, init_out_values) == FALSE

\* for k in given_ports: if d[k] != init_out_values[k]
disagrees(d, ports, init_out_values) ==
    \E k \in ports : d[k] # init_out_values[k]

\* first pass: rm_edges of the uncontrolled outputs
first_pass(m, order, init_out_values) ==
    {order[i] : i \in {j \in 1..Len(order) :
        disagrees(order[j].label, given_ports(m, init_out_values), init_out_values)}}

in_values_label(d, inputs) == d

\* in_values = tuple(d[k] for k in inputs)
in_values(d, inputs) == project_dict(d, inputs)

newly_encountered_never(vals, possible_inputs) == FALSE

\* `if in_values not in possible_inputs`
newly_encountered(vals, possible_inputs) == vals \notin possible_inputs

RECURSIVE second_pass(_, _, _, _)
\* second pass: rm_edges of the loop over the remaining edges q from index i on
second_pass(m, q, i, possible_inputs) ==
    IF i > Len(q) THEN {}
    ELSE LET vals == in_values(q[i].label, m.inputs) IN
         IF newly_encountered(vals, possible_inputs)
         THEN second_pass(m, q, i + 1, possible_inputs \cup {vals})
         ELSE {q[i]} \cup second_pass(m, q, i + 1, possible_inputs)

Remaining(order, rm) == SelectSeq(order, LAMBDA ed : ed \notin rm)

determinize_machine_init_any_edge(m, init_out_values, order) ==
    LET all == CHOOSE q \in Orders(m.edges) : TRUE
        rm1 == first_pass(m, order, init_out_values)
        rm2 == second_pass(m, Remaining(all, rm1), 1, {})
    IN  [m EXCEPT !.edges = (@ \ rm1) \ rm2]

\* determinize_machine_init(mach, init_out_values), the Sinit edges being
\* iterated in the given order
determinize_machine_init(m, init_out_values, order) ==
    LET rm1 == first_pass(m, order, init_out_values)
        rm2 == second_pass(m, Remaining(order, rm1), 1, {})
    IN  [m EXCEPT !.edges = (@ \ rm1) \ rm2]

InitOutValues ==
    {<<>>}
    \cup {[s |-> v] : v \in SeqRange(sys_vars.s.values)}
    \cup {[e |-> x] : x \in {0, 1}}
    \cup {[e |-> x, s |-> v] : x \in {0, 1}, v \in SeqRange(sys_vars.s.values)}

----------------------------------------------------------------------------
(* MealyMachine.reaction (machines.py) *)

\* the edges of from_state whose projection on the input ports equals inputs
enabled_trans(m, from_state, inputs) ==
    {ed \in succ(m, from_state) : project_dict(ed.label, m.inputs) = inputs}

reaction_pick(m, from_state, inputs) ==
    LET en == enabled_trans(m, from_state, inputs) IN
    IF en # {}
    THEN LET ed == CHOOSE x \in en : TRUE IN
         [ret |-> "ok", next_state |-> ed.dst,
          outputs |-> project_dict(ed.label, m.outputs)]
    ELSE [ret |-> "raise", next_state |-> from_state, outputs |-> <<>>]

\* reaction(from_state, inputs): (next_state, outputs), or the exception
reaction(m, from_state, inputs) ==
    LET en == enabled_trans(m, from_state, inputs) IN
    IF Cardinality(en) = 1
    THEN LET ed == CHOOSE x \in en : TRUE IN
         [ret |-> "ok", next_state |-> ed.dst,
          outputs |-> project_dict(ed.label, m.outputs)]
    ELSE [ret |-> "raise", next_state |-> from_state, outputs |-> <<>>]

InputValuations == [e : {0, 1}]

----------------------------------------------------------------------------
(* guided_run (machines.py) *)

MaxSteps == 2

\* the from_state argument: None, or a state
FromStates(m) ==
    {[none |-> TRUE, state |-> Sinit]}
        \cup {[none |-> FALSE, state |-> q] : q \in m.nodes}

default_start_successor(m) == {ed.dst : ed \in succ(m, Sinit)}

\* next(iter(mealy.initial_nodes)): one of the initial nodes
default_start(m) == m.initial_nodes

\* the states a run may start from; none when next() raises StopIteration
start_states(m, from_state) ==
    IF from_state.none THEN default_start(m) ELSE {from_state.state}

\* missing_ports = set(mealy.inputs).difference(seqs)
missing_ports(m, seqs) == DOMAIN m.inputs \ DOMAIN seqs

equal_length_unchecked(seqs) == TRUE

\* not (len(set(len(x) for x in seqs.itervalues())) > 1)
equal_length(seqs) == Cardinality({Len(seqs[k]) : k \in DOMAIN seqs}) <= 1

step_inputs_first(seqs, i) == [k \in DOMAIN seqs |-> seqs[k][1]]

\* inputs = {k: v[i] for k, v in seqs.iteritems()}, i counted from 1
step_inputs(seqs, i) == [k \in DOMAIN seqs |-> seqs[k][i]]

reaction_results_any(m, from_state, inputs) ==
    LET en == enabled_trans(m, from_state, inputs) IN
    IF en = {}
    THEN {reaction(m, from_state, inputs)}
    ELSE {[ret |-> "ok", next_state |-> ed.dst,
           outputs |-> project_dict(ed.label, m.outputs)] : ed \in en}

\* the results a call mealy.reaction(from_state, inputs) can have
reaction_results(m, from_state, inputs) == {reaction(m, from_state, inputs)}

\* an exception leaving a run after the given number of calls of reaction
RunRaise(e, reactions) ==
    [ret |-> "raise", err |-> e, states |-> <<>>, outputs |-> <<>>,
     reactions |-> reactions]

\* the loop `for i in range(n)` of guided_run from iteration i on (counted
\* from 1), in the given state, with the sequences collected so far in acc
RECURSIVE guided_loop(_, _, _, _, _, _)
guided_loop(m, seqs, n, i, state, acc) ==
    IF i > n THEN {acc}
    ELSE IF \E k \in DOMAIN seqs : Len(seqs[k]) < i
    THEN {RunRaise("IndexError", acc.reactions)}
    ELSE UNION {
        IF r.ret = "ok"
        THEN guided_loop(m, seqs, n, i + 1, r.next_state,
                 [ret |-> "ok", err |-> "",
                  states |-> Append(acc.states, r.next_state),
                  outputs |-> [k \in DOMAIN m.outputs |->
                                  Append(acc.outputs[k], r.outputs[k])],
                  reactions |-> acc.reactions + 1])
        ELSE {RunRaise("reaction", acc.reactions + 1)}
        : r \in reaction_results(m, state, step_inputs(seqs, i))}

\* guided_run(mealy, from_state, input_sequences): the results it can have,
\* (states_seq, output_seqs) or the exception raised
guided_run(m, from_state, seqs) ==
    IF missing_ports(m, seqs) # {}
    \* 'missing input port(s): ' + missing_ports adds a set to a str
    THEN {RunRaise("TypeError", 0)}
    ELSE IF ~equal_length(seqs) THEN {RunRaise("ValueError", 0)}
    ELSE IF start_states(m, from_state) = {} THEN {RunRaise("StopIteration", 0)}
    \* n = len(next(seqs.itervalues()))
    ELSE IF DOMAIN seqs = {} THEN {RunRaise("StopIteration", 0)}
    ELSE LET n == Len(seqs[CHOOSE k \in DOMAIN seqs : TRUE]) IN
         UNION {guided_loop(m, seqs, n, 1, q,
                    [ret |-> "ok", err |-> "", states |-> <<>>,
                     outputs |-> [k \in DOMAIN m.outputs |-> <<>>],
                     reactions |-> 0])
                : q \in start_states(m, from_state)}

----------------------------------------------------------------------------
(* random_run, interactive_run (machines.py) *)

MaxAsks == 2

\* mealy.out_edges(state): the edges leaving state as (source, target) pairs;
\* networkx gives the attribute dict only with data=True
out_edges(m, state) == {<<ed.src, ed.dst>> : ed \in succ(m, state)}

\* the loop `for i in xrange(N)` of random_run from iteration i on (counted
\* from 1), in the given state, with the sequences collected so far in acc
RECURSIVE random_loop(_, _, _, _, _)
random_loop(m, N, i, state, acc) ==
    IF i > N THEN {acc}
    ELSE LET trans == out_edges(m, state) IN
         \* choice(trans) of an empty list
         IF trans = {} THEN {RunRaise("IndexError", acc.reactions)}
         ELSE UNION {
             \* _, new_state, attr_dict = selected_trans
             IF Len(selected_trans) # 3
             THEN {RunRaise("ValueError", acc.reactions)}
             ELSE random_loop(m, N, i + 1, selected_trans[2],
                      [ret |-> "ok", err |-> "",
                       states |-> Append(acc.states, selected_trans[2]),
                       outputs |-> [k \in DOMAIN m.outputs |->
                           Append(acc.outputs[k],
                                  project_dict(selected_trans[3], m.outputs)[k])],
                       reactions |-> acc.reactions + 1])
             : selected_trans \in trans}

\* random_run(mealy, from_state, N): the results it can have
random_run(m, from_state, N) ==
    IF start_states(m, from_state) = {} THEN {RunRaise("StopIteration", 0)}
    ELSE UNION {random_loop(m, N, 1, q,
                    [ret |-> "ok", err |-> "", states |-> <<>>,
                     outputs |-> [k \in DOMAIN m.outputs |-> <<>>],
                     reactions |-> 0])
                : q \in start_states(m, from_state)}

\* what the operator types at the prompt: nothing (Enter), or an integer
Selections == {"", "0", "1"}

\* interactive_run(mealy, from_state), the operator ready to type id_selected:
\* how it ends and the states it printed as current
interactive_run(m, from_state, id_selected) ==
    IF start_states(m, from_state) = {}
    THEN {[ret |-> "raise", err |-> "StopIteration", current |-> <<>>]}
    \* _interactive_run_step(mealy) is called without its argument state
    ELSE {[ret |-> "raise", err |-> "TypeError", current |-> <<q>>] :
             q \in start_states(m, from_state)}

\* _select_transition(mealy, trans), the operator typing id_selected
_select_transition(m, trans, id_selected) ==
    \* (from_state, to_state, attr_dict) = t, before the prompt
    IF \E t \in trans : Len(t) # 3 THEN [ret |-> "raise", id |-> ""]
    ELSE IF id_selected = "" THEN [ret |-> "None", id |-> ""]
    ELSE [ret |-> "ok", id |-> id_selected]

----------------------------------------------------------------------------
(* states.find, transitions.find (labeled_graphs.py) *)

\* an argument for states left at its default None
NoArg == [none |-> TRUE, val |-> {}]

\* with_attr_dict left at its default None
NoDict == [none |-> TRUE, val |-> <<>>]

\* an argument that is given
Arg(v) == [none |-> FALSE, val |-> v]

\* label_is_desired(attr_dict, desired_dict): the label has the desired
\* value under every key of desired_dict
label_is_desired(attr_dict, desired_dict) ==
    \A k \in DOMAIN desired_dict :
        k \in DOMAIN attr_dict /\ attr_dict[k] = desired_dict[k]

\* d.update(e) on a dict d
dict_update(d, e) ==
    [k \in DOMAIN d \cup DOMAIN e |-> IF k \in DOMAIN e THEN e[k] ELSE d[k]]

\* with_attr_dict as find has it before the search: with_attr when it was
\* None, else updated with with_attr
desired_label(with_attr_dict, with_attr) ==
    IF with_attr_dict.none THEN with_attr
    ELSE dict_update(with_attr_dict.val, with_attr)

\* ok in the loop of transitions.find: it stays True when no label is
\* desired, and when the edge has no label
transition_ok(attr_dict, with_attr_dict) ==
    IF DOMAIN with_attr_dict = {} THEN TRUE
    ELSE IF DOMAIN attr_dict = {} THEN TRUE
    ELSE label_is_desired(attr_dict, with_attr_dict)

\* transitions.find(from_states, to_states, with_attr_dict, **with_attr): the
\* transitions (u, v, label) found
transitions_find(g, from_states, to_states, with_attr_dict, with_attr) ==
    LET desired == desired_label(with_attr_dict, with_attr)
        u_v_edges == {ed \in g.edges :
                        /\ from_states.none \/ ed.src \in from_states.val
                        /\ to_states.none \/ ed.dst \in to_states.val}
    IN {ed \in u_v_edges : transition_ok(ed.label, desired)}

state_ok_any(attr_dict, with_attr_dict) == TRUE

\* ok in the loop of states.find
state_ok(attr_dict, with_attr_dict) ==
    IF DOMAIN with_attr_dict = {} THEN TRUE
    ELSE label_is_desired(attr_dict, with_attr_dict)

\* states.find(states, with_attr_dict, **with_attr): the label of each state
\* found; a single state given as states stands for the list of it
states_find(g, states, with_attr_dict, with_attr) ==
    LET desired == desired_label(with_attr_dict, with_attr)
        \* `if states in self`: a single state was given, states = [state]
        wanted == IF states.none THEN g.nodes
                  ELSE IF states.single THEN {q \in g.nodes : q \in states.val}
                  ELSE states.val
        found == {n \in g.nodes : n \in wanted /\ state_ok(g.node[n], desired)}
    IN [n \in found |-> g.node[n]]

----------------------------------------------------------------------------
(* mealy2moore, moore2mealy (machines.py) *)

\* f with the key k set to v
dict_set(f, k, v) == [x \in DOMAIN f \cup {k} |-> IF x = k THEN v ELSE f[x]]

_split_io_unsplit(attr_dict, machine) ==
    [in_values |-> attr_dict,
     out_values |-> project_dict(attr_dict, machine.outputs)]

\* _split_io(attr_dict, machine)
_split_io(attr_dict, machine) ==
    [in_values |-> project_dict(attr_dict, machine.inputs),
     out_values |-> project_dict(attr_dict, machine.outputs)]

\* out = {k: list(v)[0] for k, v in mealy.outputs.iteritems()}: for each
\* output port some value of its domain
initial_outputs(m) ==
    {f \in [DOMAIN m.outputs -> UNION {m.outputs[k] : k \in DOMAIN m.outputs}] :
        \A k \in DOMAIN m.outputs : f[k] \in m.outputs[k]}

\* the Moore machine and the two maps before the first state is created
new_conversion(m) ==
    [moore |-> [nodes |-> {}, initial_nodes |-> {}, inputs |-> m.inputs,
                outputs |-> m.outputs, edges |-> {}, node |-> <<>>],
     moore2mealy_states |-> <<>>,
     mealy2moore_states |-> [q \in m.nodes |-> {}],
     Q |-> {}, S |-> {}]

\* moore.add_node(n, attr): n becomes a node labeled with attr
add_node(g, n, attr) ==
    [nodes |-> g.nodes \cup {n},
     initial_nodes |-> g.initial_nodes,
     inputs |-> g.inputs,
     outputs |-> g.outputs,
     edges |-> g.edges,
     node |-> dict_set(g.node, n, attr)]

\* moore.add_edge(u, v, attr): one more edge from u to v labeled with attr,
\* its key the number of edges already between u and v
add_edge(g, u, v, attr) ==
    [nodes |-> g.nodes,
     initial_nodes |-> g.initial_nodes,
     inputs |-> g.inputs,
     outputs |-> g.outputs,
     edges |-> g.edges \cup
        {[src |-> u, dst |-> v, label |-> attr,
          key |-> Cardinality({x \in g.edges : x.src = u /\ x.dst = v})]},
     node |-> g.node]

_create_state_str_any_output(cv, mealy_state, output) ==
    LET known == cv.mealy2moore_states[mealy_state] IN
    IF known # {} THEN {[s |-> s, cv |-> cv] : s \in known}
    ELSE LET n == Cardinality(cv.moore.nodes) IN
         {[s |-> n,
           cv |-> [moore |-> add_node(cv.moore, n, output),
                   moore2mealy_states |->
                       dict_set(cv.moore2mealy_states, n, mealy_state),
                   mealy2moore_states |->
                       dict_set(cv.mealy2moore_states, mealy_state,
                                cv.mealy2moore_states[mealy_state] \cup {n}),
                   Q |-> cv.Q, S |-> cv.S]]}

\* _create_state_str(mealy_state, output, moore, ...): the Moore state of
\* mealy_state that has the output, else a new state 's' + str(len(moore)),
\* written n here
_create_state_str(cv, mealy_state, output) ==
    LET found == {s \in cv.mealy2moore_states[mealy_state] :
                    cv.moore.node[s] = output} IN
    IF found # {} THEN {[s |-> s, cv |-> cv] : s \in found}
    ELSE LET n == Cardinality(cv.moore.nodes) IN
         {[s |-> n,
           cv |-> [moore |-> add_node(cv.moore, n, output),
                   moore2mealy_states |->
                       dict_set(cv.moore2mealy_states, n, mealy_state),
                   mealy2moore_states |->
                       dict_set(cv.mealy2moore_states, mealy_state,
                                cv.mealy2moore_states[mealy_state] \cup {n}),
                   Q |-> cv.Q, S |-> cv.S]]}

\* the loop `while Q` of mealy2moore, and inside it the loop over the edges
\* todo of the Mealy state of u that are still to be copied; Q.pop() and
\* edges_iter take them in any order
RECURSIVE mealy2moore_while(_, _)
RECURSIVE mealy2moore_edges(_, _, _, _)
mealy2moore_edges(m, cv, u, todo) ==
    IF todo = {} THEN mealy2moore_while(m, cv)
    ELSE UNION {
        LET io == _split_io(ed.label, m) IN
        UNION {
            LET v == r.s
                added == [r.cv EXCEPT !.moore =
                            add_edge(r.cv.moore, u, v, io.in_values)]
                next == IF v \notin added.S
                        THEN [added EXCEPT !.Q = @ \cup {v}, !.S = @ \cup {v}]
                        ELSE added
            IN mealy2moore_edges(m, next, u, todo \ {ed})
            : r \in _create_state_str(cv, ed.dst, io.out_values)}
        : ed \in todo}

mealy2moore_while(m, cv) ==
    IF cv.Q = {} THEN {cv}
    ELSE UNION {mealy2moore_edges(m, [cv EXCEPT !.Q = @ \ {u}], u,
                                  succ(m, cv.moore2mealy_states[u]))
                : u \in cv.Q}

\* mealy2moore(mealy), starting at the initial node s0 with the outputs out:
\* the Moore machines it can return with the maps it built, or the exception
mealy2moore(m) ==
    IF m.initial_nodes = {}
    THEN {[ret |-> "raise", err |-> "StopIteration", s0 |-> Sinit, out |-> <<>>,
           cv |-> new_conversion(m)]}
    ELSE UNION {UNION {UNION {
        LET new_s0 == r.s
            first == [r.cv EXCEPT
                        !.moore = [add_node(r.cv.moore, new_s0, out)
                                      EXCEPT !.initial_nodes = {new_s0}],
                        !.Q = {new_s0}, !.S = {new_s0}] IN
        {[ret |-> "ok", err |-> "", s0 |-> s0, out |-> out, cv |-> cv] :
            cv \in mealy2moore_while(m, first)}
        : r \in _create_state_str(new_conversion(m), s0, out)}
        : out \in initial_outputs(m)}
        : s0 \in m.initial_nodes}

\* output_values of moore2mealy for the state si: moore[si] is the adjacency
\* of si, whose keys are states and not ports, so nothing is kept
output_values(moore, si) == <<>>

\* moore2mealy(moore): the Mealy machine, or the exception raised
moore2mealy(moore) ==
    LET mealy == [nodes |-> moore.nodes, initial_nodes |-> moore.initial_nodes,
                  \* mealy.inputs.update(mealy.inputs)
                  inputs |-> <<>>,
                  outputs |-> moore.outputs,
                  edges |-> {}]
    IN \* for si_, sj, d in moore.out_edges_iter(si)
       IF \E si \in moore.nodes : \E t \in out_edges(moore, si) : Len(t) # 3
       THEN [ret |-> "raise", err |-> "ValueError", mealy |-> mealy]
       ELSE [ret |-> "ok", err |-> "",
             mealy |-> [mealy EXCEPT !.edges =
                 {[src |-> t[1], dst |-> t[2], key |-> 0,
                   label |-> dict_update(t[3], output_values(moore, t[1]))] :
                     t \in UNION {out_edges(moore, si) : si \in moore.nodes}}]]

----------------------------------------------------------------------------
(* Automaton (automata.py) *)

\* the acceptance values that _init_accepting_sets knows
BuchiFamily == {"finite", "Buchi", "coBuchi", "weak Buchi"}

ListFamily == {"Muller", "generalized Buchi"}

PairsFamily == {"Rabin", "Streett"}

Acceptances == BuchiFamily \cup ListFamily \cup PairsFamily \cup {"parity"}

\* values: an atom, or a set or frozenset of atoms; nodes are hashable values
Atom(a) == [kind |-> "atom", of |-> {a}]

\* the values met when iterating over the collection x
members(x) == {Atom(a) : a \in x.of}

\* u in self: networkx answers False for an unhashable u
in_self(g, u) == u.kind # "set" /\ u \in g.nodes

\* f = lambda x: all(u in self for u in x), for the values xs met in x
all_in_self(g, xs) == \A u \in xs : in_self(g, u)

_init_accepting_sets_default(acceptance) ==
    IF acceptance \in ListFamily \cup PairsFamily
    THEN [ret |-> "ok", a |-> <<>>]
    ELSE IF acceptance = "parity"
    THEN [ret |-> "ok", a |-> <<0, 0>>]
    ELSE [ret |-> "ok", a |-> [kind |-> "set", of |-> {}]]

\* _init_accepting_sets(acceptance): set(), list(), (None, None), or ValueError
_init_accepting_sets(acceptance) ==
    IF acceptance \in BuchiFamily
    THEN [ret |-> "ok", a |-> [kind |-> "set", of |-> {}]]
    ELSE IF acceptance \in ListFamily \cup PairsFamily
    THEN [ret |-> "ok", a |-> <<>>]
    ELSE IF acceptance = "parity"
    THEN [ret |-> "ok", a |-> <<0, 0>>]
    ELSE [ret |-> "raise", a |-> <<>>]

pair_ok_first_only(g, x) ==
    /\ Cardinality(DOMAIN x) = 2
    /\ DOMAIN x = {"[]<>", "<>[]!"}
    /\ all_in_self(g, members(x["[]<>"]))

\* the four asserts on an entry x of the accepting_sets of Rabin and Streett
pair_ok(g, x) ==
    /\ Cardinality(DOMAIN x) = 2
    /\ DOMAIN x = {"[]<>", "<>[]!"}
    /\ all_in_self(g, members(x["[]<>"]))
    /\ all_in_self(g, members(x["<>[]!"]))

\* check_sanity(): True, or the exception raised
check_sanity(aut) ==
    LET a == aut.acceptance
        s == aut.accepting_sets
    IN IF a \in BuchiFamily
       THEN IF all_in_self(aut, members(s)) THEN "True" ELSE "AssertionError"
       ELSE IF a \in ListFamily
       \* for x in s: assert f(s)
       THEN IF \A i \in 1..Len(s) : all_in_self(aut, SeqRange(s))
            THEN "True" ELSE "AssertionError"
       ELSE IF a \in PairsFamily
       THEN IF \A i \in 1..Len(s) : pair_ok(aut, s[i])
            THEN "True" ELSE "AssertionError"
       ELSE IF a = "parity"
       THEN IF Len(s) = 2 THEN "True" ELSE "AssertionError"
       ELSE "Exception"

----------------------------------------------------------------------------
(* GameGraph, ParityGame (games.py) *)

\* the label type that GameGraph.__init__ appends
player_label_type == [name |-> "player", default |-> 0]

\* nx.MultiDiGraph.__init__(self, data=None, **attr) called with the
\* positional arguments args: it takes at most one
MultiDiGraph_init(args) ==
    IF Len(args) > 1
    THEN [ret |-> "raise", err |-> "TypeError"]
    ELSE [ret |-> "ok", err |-> ""]

\* GameGraph.__init__(self, node_label_types, edge_label_types) called with
\* the positional arguments args; GameGraph is a subclass of nx.MultiDiGraph
GameGraph_init(args) ==
    IF Len(args) # 2
    THEN [ret |-> "raise", err |-> "TypeError", node_label_types |-> <<>>]
    ELSE LET node_label_types == Append(args[1], player_label_type)
             r == MultiDiGraph_init(<<node_label_types, args[2]>>)
         IN [ret |-> r.ret, err |-> r.err,
             node_label_types |-> node_label_types]

\* ParityGame.__init__(self, c=2)
ParityGame_init(c) ==
    GameGraph_init(<<(<<[name |-> "color", default |-> 0]>>), <<>>>>)

\* LabeledGameGraph.__init__(self): PowerSet is no name of the module
LabeledGameGraph_init ==
    [ret |-> "raise", err |-> "NameError", node_label_types |-> <<>>]

\* g.player_states(n) on a graph g whose nodes x have the attributes g.node[x]
player_states(g, n) ==
    IF \E x \in g.nodes : "player" \notin DOMAIN g.node[x]
    THEN [ret |-> "raise", err |-> "KeyError", states |-> {}]
    ELSE [ret |-> "ok", err |-> "",
          states |-> {x \in g.nodes : g.node[x].player = n}]

\* g.edge_controlled_by(e) for the pair of nodes e
edge_controlled_by(g, e) ==
    LET from_state == e[1] IN
    IF "player" \notin DOMAIN g.node[from_state]
    THEN [ret |-> "raise", err |-> "KeyError", player |-> 0]
    ELSE [ret |-> "ok", err |-> "", player |-> g.node[from_state].player]

----------------------------------------------------------------------------
(* TransitionSystem, sys_to_spec (transys.py, synth.py) *)

\* values of attributes: the integer n (True is 1, False is 0), and the
\* string number i of "a", "b", "c"
IntVal(n) == [kind |-> "int", v |-> n]

StrVal(i) == [kind |-> "str", v |-> i]

\* domains of variables: 'boolean', a range (lo, hi), a list of values
BooleanDom == [type |-> "boolean", lo |-> 0, hi |-> 1, values |-> {}]

RangeDom(lo, hi) == [type |-> "range", lo |-> lo, hi |-> hi, values |-> {}]

ListDom(values) == [type |-> "list", lo |-> 0, hi |-> 0, values |-> values]

\* the value val lies in the domain dom
in_domain(val, dom) ==
    CASE dom.type = "boolean" -> val.kind = "int" /\ val.v \in {0, 1}
      [] dom.type = "range" ->
            val.kind = "int" /\ dom.lo <= val.v /\ val.v <= dom.hi
      [] OTHER -> val \in dom.values

\* the attributes attr of a node or an edge of g take, for every variable
\* that g declares, a value of its domain
attr_in_domain(g, attr) ==
    \A k \in DOMAIN attr \cap DOMAIN g.vars : in_domain(attr[k], g.vars[k])

is_consistent_owner_only(g) ==
    IF g.owner \in {"env", "sys"} THEN "True" ELSE "AssertionError"

\* g.is_consistent(): True, or the exception raised
is_consistent(g) ==
    IF /\ g.owner \in {"env", "sys"}
       /\ g.env_vars \subseteq DOMAIN g.vars
       /\ \A x \in g.nodes : attr_in_domain(g, g.node[x])
       /\ \A ed \in g.edges : attr_in_domain(g, ed.label)
    THEN "True"
    ELSE "AssertionError"

\* TransitionSystem(): owner 'sys', no variable, no node
TransitionSystem_init ==
    [owner |-> "sys", vars |-> <<>>, env_vars |-> {},
     nodes |-> {}, initial_nodes |-> {}, node |-> <<>>, edges |-> {}]

\* g.add_edge(u, v, **label)
ts_add_edge(g, u, v, label) ==
    [g EXCEPT !.edges = g.edges \cup
        {[src |-> u, dst |-> v, label |-> label,
          key |-> Cardinality({x \in g.edges : x.src = u /\ x.dst = v})]}]

\* g.add_node(u, **label) for a node u of g
ts_add_node(g, u, label) ==
    [g EXCEPT !.node = [x \in g.nodes |-> IF x = u THEN label ELSE g.node[x]]]

\* _iter2var(g, nodevar): the module defines no such name
_iter2var(g, nodevar) == [ret |-> "raise", err |-> "NameError"]

\* what sys_to_spec has computed when it stops
SpecOf(r, e, evars, svars, env_init, sys_init, env_safe, sys_safe) ==
    [ret |-> r, err |-> e, env_vars |-> evars, sys_vars |-> svars,
     env_init |-> env_init, sys_init |-> sys_init,
     env_safety |-> env_safe, sys_safety |-> sys_safe]

\* sys_to_spec(g, nodevar, ignore_initial, receptive): the GRSpec returned,
\* or the exception raised
sys_to_spec(g, nodevar, ignore_initial, receptive) ==
    IF is_consistent(g) # "True"
    THEN SpecOf("raise", "AssertionError", {}, {}, {}, {}, {}, {})
    ELSE LET evars == {k \in DOMAIN g.vars : k \in g.env_vars}
             svars == {k \in DOMAIN g.vars : k \notin g.env_vars}
             dom == _iter2var(g, nodevar)
         IN SpecOf(dom.ret, dom.err, evars, svars, {}, {}, {}, {})

----------------------------------------------------------------------------
(* products: ba_ts_sync_prod, ts_ba_sync_prod *)

\* A transition system ts has nodes, initial_nodes, edges <<s, s'>> and the
\* labeling ap of its nodes with sets of atomic propositions; a Buchi
\* automaton ba has nodes, initial_nodes, accepting nodes and edges
\* [src, dst, guard].  A product state is a pair <<s, q>>.

prod_succ_source_label(ts, ba, n) ==
    {[src |-> n, dst |-> <<t[2], b.dst>>, guard |-> ts.ap[t[2]]] :
        t \in {x \in ts.edges : x[1] = n[1]},
        b \in {x \in ba.edges : x.src = n[2] /\ x.guard = ts.ap[n[1]]}}

\* the product edges leaving the product state n: the automaton reads the
\* label of the state that the transition system enters
prod_succ(ts, ba, n) ==
    UNION {{[src |-> n, dst |-> <<t[2], b.dst>>, guard |-> ts.ap[t[2]]] :
                b \in {x \in ba.edges :
                          x.src = n[2] /\ x.guard = ts.ap[t[2]]}} :
            t \in {x \in ts.edges : x[1] = n[1]}}

prod_init_pairs_of_initial(ts, ba) ==
    {n \in ts.initial_nodes \X ba.initial_nodes :
        \E b \in ba.edges : b.src = n[2] /\ b.guard = ts.ap[n[1]]}

\* the initial product states: an initial state of ts with the automaton
\* states entered from an initial one by reading its label
prod_init(ts, ba) ==
    UNION {{<<s0, b.dst>> :
                b \in {x \in ba.edges : x.src \in ba.initial_nodes
                                          /\ x.guard = ts.ap[s0]}} :
            s0 \in ts.initial_nodes}

\* the product states reached from the states R
RECURSIVE prod_reach(_, _, _)
prod_reach(ts, ba, R) ==
    LET more == R \cup {ed.dst : ed \in UNION {prod_succ(ts, ba, n) : n \in R}}
    IN IF more = R THEN R ELSE prod_reach(ts, ba, more)

\* products.ba_ts_sync_prod(ba, ts): the product automaton
ba_ts_sync_prod(ba, ts) ==
    LET nodes == prod_reach(ts, ba, prod_init(ts, ba)) IN
    [nodes |-> nodes,
     initial_nodes |-> prod_init(ts, ba),
     edges |-> UNION {prod_succ(ts, ba, n) : n \in nodes},
     accepting |-> {n \in nodes : n[2] \in ba.accepting}]

\* products.ts_ba_sync_prod(ts, ba): the product transition system and
\* the persistent set
ts_ba_sync_prod(ts, ba) ==
    LET prod == ba_ts_sync_prod(ba, ts) IN
    [ts_ba |-> [nodes |-> prod.nodes, initial_nodes |-> prod.initial_nodes,
                edges |-> prod.edges],
     persistent |-> {n \in prod.nodes : n[2] \in ba.accepting}]

----------------------------------------------------------------------------
(* The state machine *)

NoDet == [init_out_values |-> <<>>, order |-> <<>>]

NoRxn == [op |-> "none"]

NoCall == [op |-> "none"]

Init ==
    /\ pc = "start"
    /\ call = NoCall
    /\ A \in Strategies
    /\ isinit = {}
    /\ ret = "pending"
    /\ err = ""
    /\ mach = NoMach
    /\ dmach = NoMach
    /\ det = NoDet
    /\ rxn = NoRxn

\* a direct call of strategy2mealy(A, spec)
Strategy2Mealy ==
    /\ pc = "start"
    /\ \E isin \in InitConditions(A) :
         LET r == strategy2mealy(A, isin) IN
         /\ isinit' = r.isinit
         /\ ret' = r.ret
         /\ err' = r.err
         /\ mach' = r.mach
    /\ call' = [op |-> "strategy2mealy"]
    /\ pc' = "done"
    /\ UNCHANGED <<A, dmach, det, rxn>>

\* synthesize(option, specs, rm_deadends=...); the solver returns A
Synthesize ==
    /\ pc = "start"
    /\ \E option \in Options, rm \in BOOLEAN, isin \in InitConditions(A) :
         LET r == synthesize(option, A, isin, rm) IN
         /\ isinit' = r.isinit
         /\ ret' = r.ret
         /\ err' = r.err
         /\ mach' = r.mach
         /\ call' = [op |-> "synthesize", rm_deadends |-> rm]
    /\ pc' = "done"
    /\ UNCHANGED <<A, dmach, det, rxn>>

\* the call returns: the caller keeps the machine returned (mach = f(...)),
\* the arguments and locals of the call go out of scope
Return ==
    /\ \/ pc = "done" /\ ret = "mach"
       \/ pc = "det"
    /\ mach' = IF pc = "det" THEN dmach ELSE mach
    /\ pc' = "held"
    /\ call' = NoCall
    /\ A' = None
    /\ isinit' = {}
    /\ dmach' = NoMach
    /\ det' = NoDet
    /\ UNCHANGED <<ret, err, rxn>>

\* determinize_machine_init(mach, init_out_values) on the machine held
Determinize ==
    /\ pc = "held"
    /\ \E iov \in InitOutValues, order \in Orders(succ(mach, Sinit)) :
         /\ det' = [init_out_values |-> iov, order |-> order]
         /\ dmach' = determinize_machine_init(mach, iov, order)
    /\ call' = [op |-> "determinize_machine_init"]
    /\ pc' = "det"
    /\ UNCHANGED <<A, isinit, ret, err, mach, rxn>>

\* mach.reaction(from_state, inputs) on the machine held
Reaction ==
    /\ pc = "held"
    /\ \E from_state \in mach.nodes, inputs \in InputValuations :
         rxn' = [op |-> "reaction", from_state |-> from_state,
                 inputs |-> inputs,
                 result |-> reaction(mach, from_state, inputs)]
    /\ call' = [op |-> "reaction"]
    /\ pc' = "reacted"
    /\ UNCHANGED <<A, isinit, ret, err, mach, dmach, det>>

\* mach.remove_deadends() on the machine held, which it changes in place
RemoveDeadends ==
    /\ pc \in {"held", "pruned"}
    /\ mach' = remove_deadends(mach)
    /\ rxn' = [op |-> "remove_deadends", before |-> mach,
               rounds |-> remove_deadends_rounds(mach)]
    /\ call' = [op |-> "remove_deadends"]
    /\ pc' = IF pc = "held" THEN "pruned" ELSE "pruned_again"
    /\ UNCHANGED <<A, isinit, ret, err, dmach, det>>

Next ==
    \/ Strategy2Mealy
    \/ Synthesize
    \/ Return
    \/ Determinize
    \/ Reaction
    \/ RemoveDeadends

Spec == Init /\ [][Next]_vars

----------------------------------------------------------------------------
(* Simulation of a machine *)

MaxRunEdges == 2

RunNodes == {Sinit, 1}

RunEdges ==
    {[src |-> u, dst |-> v, key |-> 0, label |-> l] :
        u \in RunNodes, v \in RunNodes, l \in [e : {0, 1}, s : {"a", "b"}]}

\* the machines over RunNodes with ports e -> s
Machines ==
    {[nodes |-> RunNodes, initial_nodes |-> I,
      inputs |-> create_machine_ports(env_vars),
      outputs |-> create_machine_ports(sys_vars),
      edges |-> E] :
        I \in {{}, {Sinit}, RunNodes},
        E \in {X \in SUBSET RunEdges : Cardinality(X) <= MaxRunEdges}}

green == Sinit + 1

red == green + 1

\* the traffic light: no input port, output port go, green -> red -> green
TrafficLights ==
    {[nodes |-> {green, red}, initial_nodes |-> I,
      inputs |-> <<>>,
      outputs |-> [go |-> {0, 1}],
      edges |-> {[src |-> green, dst |-> red, key |-> 0, label |-> [go |-> 0]],
                 [src |-> red, dst |-> green, key |-> 0, label |-> [go |-> 1]]}] :
        I \in {{}, {green}}}

RECURSIVE TotalLen(_, _)
TotalLen(f, K) ==
    IF K = {} THEN 0
    ELSE LET k == CHOOSE x \in K : TRUE IN Len(f[k]) + TotalLen(f, K \ {k})

Seqs01(n) == UNION {[1..k -> {0, 1}] : k \in 0..n}

\* the input_sequences given: a dict from port names, and possibly a name x
\* that is no port, to lists, of at most MaxSteps values altogether; for a
\* machine without input ports also three steps under the name x
InputSequences(m) ==
    {f \in UNION {[K -> Seqs01(MaxSteps)] : K \in SUBSET (DOMAIN m.inputs \cup {"x"})} :
        /\ TotalLen(f, DOMAIN f) <= MaxSteps
        /\ "x" \in DOMAIN f => \A i \in 1..Len(f["x"]) : f["x"][i] = 0}
    \cup (IF DOMAIN m.inputs = {} THEN {[x |-> <<0, 0, 0>>]} ELSE {})

InitRun ==
    /\ pc = "held"
    /\ call = NoCall
    /\ A = None
    /\ isinit = {}
    /\ ret = "mach"
    /\ err = ""
    /\ mach \in Machines \cup TrafficLights
    /\ dmach = NoMach
    /\ det = NoDet
    /\ rxn = NoRxn

\* guided_run(mach, from_state, input_sequences) on the machine held
GuidedRun ==
    /\ pc = "held"
    /\ \E from_state \in FromStates(mach), seqs \in InputSequences(mach) :
         \E r \in guided_run(mach, from_state, seqs) :
             rxn' = [op |-> "guided_run", from_state |-> from_state,
                     input_sequences |-> seqs, result |-> r, again |-> r,
                     runs |-> 1]
    /\ call' = [op |-> "guided_run"]
    /\ pc' = "ran"
    /\ UNCHANGED <<A, isinit, ret, err, mach, dmach, det>>

\* guided_run called once more with the same arguments
GuidedRunAgain ==
    /\ pc = "ran"
    /\ rxn.op = "guided_run"
    /\ rxn.runs = 1
    /\ \E r \in guided_run(mach, rxn.from_state, rxn.input_sequences) :
         rxn' = [rxn EXCEPT !.again = r, !.runs = 2]
    /\ UNCHANGED <<pc, call, A, isinit, ret, err, mach, dmach, det>>

\* random_run(mach, from_state, N) on the machine held
RandomRun ==
    /\ pc = "held"
    /\ \E from_state \in FromStates(mach), N \in 0..MaxSteps :
         \E r \in random_run(mach, from_state, N) :
             rxn' = [op |-> "random_run", from_state |-> from_state,
                     N |-> N, result |-> r]
    /\ call' = [op |-> "random_run"]
    /\ pc' = "ran"
    /\ UNCHANGED <<A, isinit, ret, err, mach, dmach, det>>

\* interactive_run(mach, from_state) on the machine held
InteractiveRun ==
    /\ pc = "held"
    /\ \E from_state \in FromStates(mach), id_selected \in Selections :
         \E r \in interactive_run(mach, from_state, id_selected) :
             rxn' = [op |-> "interactive_run", from_state |-> from_state,
                     id_selected |-> id_selected, result |-> r]
    /\ call' = [op |-> "interactive_run"]
    /\ pc' = "interacted"
    /\ UNCHANGED <<A, isinit, ret, err, mach, dmach, det>>

\* _interactive_run_step(mach, state) up to its loop `while True`: it returns
\* None when state has no outgoing transitions, else it enters the loop
InteractiveRunStep ==
    /\ pc = "held"
    /\ \E state \in mach.nodes :
         LET trans == out_edges(mach, state) IN
         /\ rxn' = [op |-> "_interactive_run_step", state |-> state,
                    trans |-> trans, asks |-> 0, id_selected |-> "",
                    selected_trans |-> [ret |-> "unassigned", id |-> ""]]
         /\ pc' = IF trans = {} THEN "stepped" ELSE "selecting"
    /\ call' = [op |-> "_interactive_run_step"]
    /\ UNCHANGED <<A, isinit, ret, err, mach, dmach, det>>

\* one iteration of the loop `while True` of _interactive_run_step: the value
\* of _select_transition is kept, its exception is caught, and the loop, which
\* has no break, goes on
SelectTransition ==
    /\ pc = "selecting"
    /\ rxn.asks < MaxAsks
    /\ \E id_selected \in Selections :
         LET r == _select_transition(mach, rxn.trans, id_selected) IN
         rxn' = [rxn EXCEPT !.asks = @ + 1,
                            !.id_selected = id_selected,
                            !.selected_trans =
                                IF r.ret = "raise" THEN rxn.selected_trans ELSE r]
    /\ UNCHANGED <<pc, call, A, isinit, ret, err, mach, dmach, det>>

\* mealy2moore(mach) on the machine held
Mealy2Moore ==
    /\ pc = "held"
    /\ \E r \in mealy2moore(mach) :
         rxn' = [op |-> "mealy2moore", result |-> r]
    /\ call' = [op |-> "mealy2moore"]
    /\ pc' = "converted"
    /\ UNCHANGED <<A, isinit, ret, err, mach, dmach, det>>

\* moore2mealy(moore) on the Moore machine that mealy2moore returned
Moore2Mealy ==
    /\ pc = "converted"
    /\ rxn.op = "mealy2moore"
    /\ rxn.result.ret = "ok"
    /\ rxn' = [op |-> "moore2mealy", moore |-> rxn.result.cv.moore,
               result |-> moore2mealy(rxn.result.cv.moore)]
    /\ call' = [op |-> "moore2mealy"]
    /\ pc' = "reconverted"
    /\ UNCHANGED <<A, isinit, ret, err, mach, dmach, det>>

NextRun ==
    \/ Mealy2Moore
    \/ Moore2Mealy
    \/ GuidedRun
    \/ GuidedRunAgain
    \/ RandomRun
    \/ InteractiveRun
    \/ InteractiveRunStep
    \/ SelectTransition

SpecRun == InitRun /\ [][NextRun]_vars

----------------------------------------------------------------------------
(* Searching a labeled graph *)

MaxFindEdges == 2

FindNodes == {1, 2}

\* the labels: none, or a value under the key a
Labels == {<<>>} \cup [a : {0, 1}]

\* the labeled graphs over FindNodes
LabeledGraphs ==
    {[nodes |-> FindNodes, initial_nodes |-> {}, node |-> nd, edges |-> E] :
        nd \in [FindNodes -> Labels],
        E \in {X \in SUBSET {[src |-> u, dst |-> v, key |-> 0, label |-> l] :
                                u \in FindNodes, v \in FindNodes, l \in Labels} :
                  Cardinality(X) <= MaxFindEdges}}

InitFind ==
    /\ pc = "held"
    /\ call = NoCall
    /\ A = None
    /\ isinit = {}
    /\ ret = "mach"
    /\ err = ""
    /\ mach \in LabeledGraphs
    /\ dmach = NoMach
    /\ det = NoDet
    /\ rxn = NoRxn

\* mach.transitions.find(from_states, to_states, with_attr_dict, **with_attr)
FindTransitions ==
    /\ pc = "held"
    /\ \E from_states \in {NoArg, Arg({1}), Arg(FindNodes)},
          to_states \in {NoArg, Arg({2}), Arg(FindNodes)},
          with_attr_dict \in {NoDict} \cup {Arg(l) : l \in Labels},
          with_attr \in {<<>>, [a |-> 1]} :
         rxn' = [op |-> "transitions.find", from_states |-> from_states,
                 to_states |-> to_states, with_attr_dict |-> with_attr_dict,
                 with_attr |-> with_attr,
                 result |-> transitions_find(mach, from_states, to_states,
                                             with_attr_dict, with_attr)]
    /\ call' = [op |-> "transitions.find"]
    /\ pc' = "found"
    /\ UNCHANGED <<A, isinit, ret, err, mach, dmach, det>>

\* mach.states.find(states, with_attr_dict, **with_attr)
FindStates ==
    /\ pc = "held"
    /\ \E states \in {[none |-> TRUE, single |-> FALSE, val |-> {}]}
                      \cup {[none |-> FALSE, single |-> FALSE, val |-> S] :
                               S \in SUBSET FindNodes}
                      \cup {[none |-> FALSE, single |-> TRUE, val |-> {q}] :
                               q \in FindNodes},
          with_attr_dict \in {NoDict} \cup {Arg(l) : l \in Labels},
          with_attr \in {<<>>, [a |-> 1]} :
         rxn' = [op |-> "states.find", states |-> states,
                 with_attr_dict |-> with_attr_dict, with_attr |-> with_attr,
                 result |-> states_find(mach, states, with_attr_dict, with_attr)]
    /\ call' = [op |-> "states.find"]
    /\ pc' = "found"
    /\ UNCHANGED <<A, isinit, ret, err, mach, dmach, det>>

NextFind ==
    \/ FindTransitions
    \/ FindStates

SpecFind == InitFind /\ [][NextFind]_vars

----------------------------------------------------------------------------
(* Automata and their accepting sets *)

MaxSets == 2

Atoms == {1, 2}

\* the nodes an automaton may have: atoms, and the frozenset of both
NodeValues == {Atom(a) : a \in Atoms} \cup {[kind |-> "frozenset", of |-> Atoms]}

SeqsUpTo(S, n) == UNION {[1..k -> S] : k \in 0..n}

\* the entries a user appends for Rabin and Streett: dicts to sets of nodes
PairEntries ==
    {x \in UNION {[K -> {[kind |-> "set", of |-> S] : S \in {{}, {1}, {2}}}] :
                    K \in SUBSET {"[]<>", "<>[]!", "extra"}} :
        "extra" \in DOMAIN x => x["extra"].of = {}}

\* the accepting_sets a user may have built for the acceptance
AcceptingSets(acceptance) ==
    IF acceptance \in BuchiFamily
    THEN {[kind |-> "set", of |-> S] : S \in SUBSET Atoms}
    ELSE IF acceptance \in ListFamily
    THEN SeqsUpTo({[kind |-> k, of |-> S] :
                      k \in {"set", "frozenset"}, S \in SUBSET Atoms}, MaxSets)
    ELSE IF acceptance \in PairsFamily
    THEN SeqsUpTo(PairEntries, MaxSets)
    ELSE SeqsUpTo({0, 1}, MaxSets + 1)

InitAut ==
    /\ pc = "start"
    /\ call = NoCall
    /\ A = None
    /\ isinit = {}
    /\ ret = "pending"
    /\ err = ""
    /\ mach = NoMach
    /\ dmach = NoMach
    /\ det = NoDet
    /\ rxn = NoRxn

\* Automaton(acceptance=...)
NewAutomaton ==
    /\ pc = "start"
    /\ \E acceptance \in Acceptances \cup {"other"} :
         LET r == _init_accepting_sets(acceptance) IN
         /\ call' = [op |-> "Automaton", acceptance |-> acceptance]
         /\ ret' = IF r.ret = "ok" THEN "mach" ELSE "raise"
         /\ err' = IF r.ret = "ok" THEN "" ELSE "ValueError"
         /\ pc' = IF r.ret = "ok" THEN "built" ELSE "done"
         /\ mach' = IF r.ret = "ok"
                    THEN [nodes |-> {}, initial_nodes |-> {}, edges |-> {},
                          acceptance |-> acceptance, accepting_sets |-> r.a]
                    ELSE NoMach
    /\ UNCHANGED <<A, isinit, dmach, det, rxn>>

\* the user adds nodes and fills accepting_sets
Populate ==
    /\ pc = "built"
    /\ \E N \in SUBSET NodeValues, s \in AcceptingSets(mach.acceptance) :
         mach' = [mach EXCEPT !.nodes = N, !.accepting_sets = s]
    /\ call' = [op |-> "populate"]
    /\ pc' = "held"
    /\ UNCHANGED <<A, isinit, ret, err, dmach, det, rxn>>

\* the user assigns an acceptance that is none of the known
SetAcceptance ==
    /\ pc = "built"
    /\ mach' = [mach EXCEPT !.acceptance = "other"]
    /\ call' = [op |-> "set acceptance"]
    /\ pc' = "held"
    /\ UNCHANGED <<A, isinit, ret, err, dmach, det, rxn>>

\* mach.check_sanity()
CheckSanity ==
    /\ pc \in {"built", "held"}
    /\ rxn' = [op |-> "check_sanity", fresh |-> (pc = "built"),
               result |-> check_sanity(mach)]
    /\ call' = [op |-> "check_sanity"]
    /\ pc' = "checked"
    /\ UNCHANGED <<A, isinit, ret, err, mach, dmach, det>>

NextAut ==
    \/ NewAutomaton
    \/ Populate
    \/ SetAcceptance
    \/ CheckSanity

SpecAut == InitAut /\ [][NextAut]_vars

----------------------------------------------------------------------------
(* Game graphs *)

MaxTypes == 2

MaxColors == 2

\* label types that a caller passes
LabelTypes ==
    {[name |-> "ap", default |-> 0], [name |-> "color", default |-> 0],
     [name |-> "player", default |-> 1]}

InitGame == InitAut

\* the graph that a constructor leaves when it returns: no node, no edge
NewGame(r) ==
    IF r.ret = "ok"
    THEN [nodes |-> {}, initial_nodes |-> {}, edges |-> {}, node |-> <<>>,
          node_label_types |-> r.node_label_types]
    ELSE NoMach

\* GameGraph(node_label_types, edge_label_types)
NewGameGraph ==
    /\ pc = "start"
    /\ \E node_label_types \in SeqsUpTo(LabelTypes, MaxTypes),
          edge_label_types \in SeqsUpTo(LabelTypes, MaxTypes) :
         LET r == GameGraph_init(<<node_label_types, edge_label_types>>) IN
         /\ call' = [op |-> "GameGraph",
                     node_label_types |-> node_label_types,
                     edge_label_types |-> edge_label_types]
         /\ ret' = IF r.ret = "ok" THEN "mach" ELSE "raise"
         /\ err' = r.err
         /\ mach' = NewGame(r)
    /\ pc' = "done"
    /\ UNCHANGED <<A, isinit, dmach, det, rxn>>

\* ParityGame(c)
NewParityGame ==
    /\ pc = "start"
    /\ \E c \in 0..MaxColors :
         LET r == ParityGame_init(c) IN
         /\ call' = [op |-> "ParityGame", c |-> c]
         /\ ret' = IF r.ret = "ok" THEN "mach" ELSE "raise"
         /\ err' = r.err
         /\ mach' = NewGame(r)
    /\ pc' = "done"
    /\ UNCHANGED <<A, isinit, dmach, det, rxn>>

\* LabeledGameGraph()
NewLabeledGameGraph ==
    /\ pc = "start"
    /\ LET r == LabeledGameGraph_init IN
         /\ call' = [op |-> "LabeledGameGraph"]
         /\ ret' = IF r.ret = "ok" THEN "mach" ELSE "raise"
         /\ err' = r.err
         /\ mach' = NewGame(r)
    /\ pc' = "done"
    /\ UNCHANGED <<A, isinit, dmach, det, rxn>>

NextGame ==
    \/ NewGameGraph
    \/ NewParityGame
    \/ NewLabeledGameGraph

SpecGame == InitGame /\ [][NextGame]_vars

----------------------------------------------------------------------------
(* Transition systems *)

MaxTSLabels == 1

TSNodes == {0, 1}

\* the variables that a transition system declares: p boolean or absent,
\* x an integer range, a list of strings, or absent
TSVars ==
    {<<>>, [p |-> BooleanDom], [x |-> RangeDom(0, 1)],
     [x |-> ListDom({StrVal(0), StrVal(1)})],
     [p |-> BooleanDom, x |-> RangeDom(0, 1)],
     [p |-> BooleanDom, x |-> ListDom({StrVal(0), StrVal(1)})]}

\* the attributes given to a node or an edge: p is True or 'a', x is 0 or 'a'
TSLabels ==
    {<<>>} \cup [p : {IntVal(1), StrVal(0)}]
           \cup [x : {IntVal(0), StrVal(0)}]
           \cup [p : {IntVal(1), StrVal(0)}, x : {IntVal(0), StrVal(0)}]

\* the number of labeled nodes and of edges of g
TSSize(g) ==
    Cardinality(g.edges) + Cardinality({x \in g.nodes : g.node[x] # <<>>})

InitTS ==
    /\ pc = "start"
    /\ call = NoCall
    /\ A = None
    /\ isinit = {}
    /\ ret = "pending"
    /\ err = ""
    /\ mach = TransitionSystem_init
    /\ dmach = NoMach
    /\ det = NoDet
    /\ rxn = NoRxn

\* g.vars = ...; g.env_vars = ...; g.add_nodes_from(TSNodes)
Declare ==
    /\ pc = "start"
    /\ \E v \in TSVars, ev \in {{}, {"p"}, {"y"}} :
         mach' = [mach EXCEPT !.vars = v, !.env_vars = ev, !.nodes = TSNodes,
                             !.node = [x \in TSNodes |-> <<>>]]
    /\ call' = [op |-> "declare"]
    /\ pc' = "held"
    /\ UNCHANGED <<A, isinit, ret, err, dmach, det, rxn>>

\* g.owner = ...
SetOwner ==
    /\ pc = "held"
    /\ mach.owner = "sys"
    /\ \E o \in {"env", "other"} : mach' = [mach EXCEPT !.owner = o]
    /\ call' = [op |-> "set owner"]
    /\ UNCHANGED <<pc, A, isinit, ret, err, dmach, det, rxn>>

\* g.add_node(u, **label)
LabelNode ==
    /\ pc = "held"
    /\ TSSize(mach) < MaxTSLabels
    /\ \E u \in TSNodes, label \in TSLabels \ {<<>>} :
         /\ mach.node[u] = <<>>
         /\ mach' = ts_add_node(mach, u, label)
    /\ call' = [op |-> "add_node"]
    /\ UNCHANGED <<pc, A, isinit, ret, err, dmach, det, rxn>>

\* g.is_consistent(); g.add_edge(u, v, **label); g.is_consistent()
AddEdge ==
    /\ pc = "held"
    /\ TSSize(mach) < MaxTSLabels
    /\ \E u \in TSNodes, v \in TSNodes, label \in TSLabels :
         /\ mach' = ts_add_edge(mach, u, v, label)
         /\ rxn' = [op |-> "add_edge", label |-> label,
                    before |-> is_consistent(mach),
                    after |-> is_consistent(mach')]
    /\ call' = [op |-> "add_edge"]
    /\ UNCHANGED <<pc, A, isinit, ret, err, dmach, det>>

\* g.is_consistent()
IsConsistent ==
    /\ pc = "held"
    /\ rxn' = [op |-> "is_consistent", result |-> is_consistent(mach)]
    /\ call' = [op |-> "is_consistent"]
    /\ pc' = "checked"
    /\ UNCHANGED <<A, isinit, ret, err, mach, dmach, det>>

\* sys_to_spec(g, 'loc', ignore_initial, receptive)
SysToSpec ==
    /\ pc = "held"
    /\ \E ignore_initial \in BOOLEAN, receptive \in BOOLEAN :
         /\ rxn' = [op |-> "sys_to_spec",
                    result |-> sys_to_spec(mach, "loc", ignore_initial,
                                           receptive)]
         /\ call' = [op |-> "sys_to_spec", nodevar |-> "loc",
                     ignore_initial |-> ignore_initial,
                     receptive |-> receptive]
    /\ pc' = "spec"
    /\ UNCHANGED <<A, isinit, ret, err, mach, dmach, det>>

NextTS ==
    \/ Declare
    \/ SetOwner
    \/ LabelNode
    \/ AddEdge
    \/ IsConsistent
    \/ SysToSpec

SpecTS == InitTS /\ [][NextTS]_vars

----------------------------------------------------------------------------
(* Products of a transition system and a Buchi automaton *)

MaxBAEdges == 4

\* the states s0..s3 of ts_test and q0, q1 of the automaton
PTSNodes == {0, 1, 2, 3}

PBANodes == {0, 1}

\* ts_test: the cycle s0 -> s1 -> s2 -> s3 -> s0 with initial states
\* {s0, s1} and s0 labeled {p}; and variants of its labeling and of its
\* initial states
TSCycles ==
    {[nodes |-> PTSNodes, initial_nodes |-> I,
      edges |-> {<<0, 1>>, <<1, 2>>, <<2, 3>>, <<3, 0>>},
      ap |-> [x \in PTSNodes |-> IF x = 0 THEN l ELSE {}]] :
        I \in {{0, 1}, {0}, {}}, l \in {{"p"}, {}}}

\* the Buchi automata on q0, q1 over the letters {} and {p}
BuchiAutomata ==
    {[nodes |-> PBANodes, initial_nodes |-> I, accepting |-> F, edges |-> E] :
        I \in {{0}, {0, 1}}, F \in {{1}, {}},
        E \in {X \in SUBSET [src : PBANodes, dst : PBANodes,
                              guard : {{}, {"p"}}] :
                  Cardinality(X) <= MaxBAEdges}}

InitProd ==
    /\ pc = "held"
    /\ call = NoCall
    /\ A = None
    /\ isinit = {}
    /\ ret = "mach"
    /\ err = ""
    /\ mach \in TSCycles
    /\ dmach = NoMach
    /\ det \in BuchiAutomata
    /\ rxn = NoRxn

\* products.ba_ts_sync_prod(ba, ts) for the ts and the ba held
BaTsSyncProd ==
    /\ pc = "held"
    /\ rxn' = [op |-> "ba_ts_sync_prod", ba_ts |-> ba_ts_sync_prod(det, mach)]
    /\ call' = [op |-> "ba_ts_sync_prod"]
    /\ pc' = "ba_ts"
    /\ UNCHANGED <<A, isinit, ret, err, mach, dmach, det>>

\* (ts_ba, persistent) = products.ts_ba_sync_prod(ts, ba)
TsBaSyncProd ==
    /\ pc = "held"
    /\ rxn' = [op |-> "ts_ba_sync_prod", result |-> ts_ba_sync_prod(mach, det)]
    /\ call' = [op |-> "ts_ba_sync_prod"]
    /\ pc' = "ts_ba"
    /\ UNCHANGED <<A, isinit, ret, err, mach, dmach, det>>

NextProd ==
    \/ BaTsSyncProd
    \/ TsBaSyncProd

SpecProd == InitProd /\ [][NextProd]_vars

----------------------------------------------------------------------------
(* Properties *)

\* the edges of m leaving state q whose values on the input ports are those of i
Matching(m, q, i) ==
    {ed \in m.edges : ed.src = q /\ \A k \in DOMAIN m.inputs : ed.label[k] = i[k]}

Reacted == pc = "reacted" /\ rxn.op = "reaction"

C1_WitnessOne ==
    /\ Reacted
    /\ rxn.from_state # Sinit
    /\ Cardinality(succ(mach, rxn.from_state)) = 2
    /\ Cardinality(Matching(mach, rxn.from_state, rxn.inputs)) = 1
    /\ rxn.result.ret = "ok"

C1_WitnessZero ==
    /\ Reacted
    /\ succ(mach, rxn.from_state) # {}
    /\ Matching(mach, rxn.from_state, rxn.inputs) = {}
    /\ rxn.result.ret = "raise"

Determinized == pc = "det"

\* C2: in the machine returned by determinize_machine_init, Sinit has at most
\* one outgoing edge for every input valuation.
C2_SinitInputDeterministic ==
    Determinized =>
        \A i \in InputValuations : Cardinality(Matching(dmach, Sinit, i)) <= 1

C2_Witness ==
    /\ Determinized
    /\ DOMAIN det.init_out_values = {}
    /\ \E i \in InputValuations :
         /\ Cardinality(Matching(mach, Sinit, i)) >= 2
         /\ Cardinality(Matching(dmach, Sinit, i)) = 1

\* the output ports for which init_out_values gives a value
Given == DOMAIN det.init_out_values \cap DOMAIN mach.outputs

\* C3: an edge leaving Sinit whose label differs from init_out_values on a given
\* output port is not in the returned machine, so every edge leaving Sinit in
\* the returned machine carries init_out_values[k] for every given output port k.
C3_GivenOutputsFixed ==
    Determinized =>
        /\ \A ed \in succ(mach, Sinit) :
             (\E k \in Given : ed.label[k] # det.init_out_values[k])
                 => ed \notin dmach.edges
        /\ \A ed \in succ(dmach, Sinit) :
             \A k \in Given : ed.label[k] = det.init_out_values[k]

C3_Witness ==
    /\ Determinized
    /\ Given # {}
    /\ \E ed \in succ(mach, Sinit) : ed \notin dmach.edges
          /\ \E k \in Given : ed.label[k] # det.init_out_values[k]
    /\ succ(dmach, Sinit) # {}

\* the edges leaving Sinit that agree with init_out_values on the given ports
FirstPassSurvivors ==
    {ed \in succ(mach, Sinit) : \A k \in Given : ed.label[k] = det.init_out_values[k]}

\* position of edge ed in the iteration order of the determinization
Pos(ed) == CHOOSE n \in 1..Len(det.order) : det.order[n] = ed

\* C4: every input valuation carried by an edge of Sinit that survives the first
\* pass is carried by exactly one edge of Sinit in the returned machine, the
\* first such survivor in iteration order.
C4_OneEdgePerInput ==
    Determinized =>
        \A i \in InputValuations :
            LET cand == FirstPassSurvivors \cap Matching(mach, Sinit, i) IN
            cand # {} =>
                /\ Cardinality(Matching(dmach, Sinit, i)) = 1
                /\ \A ed \in Matching(dmach, Sinit, i) :
                     /\ ed \in cand
                     /\ \A other \in cand : Pos(ed) <= Pos(other)

C4_Witness ==
    /\ Determinized
    /\ \E i \in InputValuations :
         LET cand == FirstPassSurvivors \cap Matching(mach, Sinit, i) IN
         /\ Cardinality(cand) >= 2
         /\ \E ed \in Matching(dmach, Sinit, i), other \in cand :
              ed.dst > other.dst

\* strategy2mealy was called directly and returned a machine
Built == pc = "done" /\ call.op = "strategy2mealy" /\ ret = "mach"

RECURSIVE ReachFrom(_, _)
\* the nodes of m reachable from the set R of nodes
ReachFrom(m, R) ==
    LET more == R \cup {ed.dst : ed \in {x \in m.edges : x.src \in R}} IN
    IF more = R THEN R ELSE ReachFrom(m, more)

\* the label a machine edge carries for the integer coded valuation v
LabelOf(v) == [e |-> v.e, s |-> sys_vars.s.values[v.s + 1]]

\* C5 as claimed: in the machine built by strategy2mealy every state reachable
\* from Sinit has at most one outgoing edge for every input valuation.
C5_InputDeterministic ==
    Built =>
        \A q \in ReachFrom(mach, {Sinit}), i \in InputValuations :
            Cardinality(Matching(mach, q, i)) <= 1

\* C5 amended: in the machine built by strategy2mealy, a strategy node
\* reachable from Sinit has, for every input valuation, exactly one outgoing
\* edge per strategy successor whose valuation has these input values, and
\* Sinit has at most one outgoing edge per valuation of the inputs and the
\* outputs together.
C5_DeterministicUpToStrategy ==
    Built =>
        \A q \in ReachFrom(mach, {Sinit}), i \in InputValuations :
            IF q = Sinit
            THEN \A o \in [s : mach.outputs.s] :
                    Cardinality({ed \in Matching(mach, q, i) : ed.label.s = o.s}) <= 1
            ELSE Cardinality(Matching(mach, q, i)) =
                 Cardinality({v \in 1..A.n : <<q, v>> \in A.edges /\ A.state[v].e = i.e})

C5_Witness ==
    /\ Built
    /\ \E i \in InputValuations : Cardinality(Matching(mach, Sinit, i)) = 2
    /\ \E q \in ReachFrom(mach, {Sinit}) \ {Sinit}, i \in InputValuations :
         Cardinality(Matching(mach, q, i)) = 2

\* synthesize invoked the solver (the option was a known one) and has ended
Synthesized == pc = "done" /\ call.op = "synthesize" /\ err # "UndefinedOption"

\* C6 as claimed: synthesize returns None, raising nothing, when the solver
\* returns None or an empty strategy, and returns a machine only when the
\* solver returned a non-empty strategy.
C6_NoneWhenUnrealizable ==
    Synthesized =>
        /\ (A.none \/ A.n = 0) => ret = "None"
        /\ ret = "mach" => ~A.none /\ A.n > 0

\* C7: strategy2mealy called with None or with an empty strategy graph raises
\* its empty-strategy error and returns no machine.
C7_EmptyStrategyRaises ==
    (pc = "done" /\ call.op = "strategy2mealy" /\ (A.none \/ A.n = 0)) =>
        /\ ret = "raise"
        /\ err = "EmptyStrategy"
        /\ mach = NoMach

C7_Witness ==
    /\ pc = "done"
    /\ call.op = "strategy2mealy"
    /\ ~A.none
    /\ A.n = 0
    /\ ret = "raise"

\* C8: the machine built by strategy2mealy has every strategy node, and between
\* strategy nodes exactly one edge u -> v for every strategy edge u -> v, labeled
\* with the valuation of v in which the list variable has the string at v's code.
C8_EdgesCarryTargetValuation ==
    Built =>
        /\ 1..A.n \subseteq mach.nodes
        /\ \A p \in A.edges :
             \E ed \in mach.edges :
                 ed.src = p[1] /\ ed.dst = p[2] /\ ed.label = LabelOf(A.state[p[2]])
        /\ \A ed \in mach.edges :
             (ed.src # Sinit /\ ed.dst # Sinit) =>
                 /\ <<ed.src, ed.dst>> \in A.edges
                 /\ ed.label = LabelOf(A.state[ed.dst])
        /\ \A u, v \in 1..A.n :
             Cardinality({ed \in mach.edges : ed.src = u /\ ed.dst = v}) <= 1

C8_Witness ==
    /\ Built
    /\ \E ed \in mach.edges :
         /\ ed.src # Sinit
         /\ A.state[ed.src].e # A.state[ed.dst].e
         /\ A.state[ed.src].s # A.state[ed.dst].s
         /\ A.state[ed.dst].s = 1
         /\ ed.label.s = "b"

\* C9: in the machine built by strategy2mealy an edge Sinit -> u exists only if
\* the valuation of u satisfies the initial condition, no two edges leaving Sinit
\* carry the same valuation, and every valuation of a strategy node that
\* satisfies the initial condition is carried by exactly one edge leaving Sinit.
C9_InitialReactions ==
    Built =>
        /\ \A ed \in succ(mach, Sinit) :
             /\ ed.dst \in 1..A.n
             /\ A.state[ed.dst] \in isinit
             /\ ed.label = LabelOf(A.state[ed.dst])
        /\ \A ed1, ed2 \in succ(mach, Sinit) :
             ed1 # ed2 => ed1.label # ed2.label
        /\ \A u \in 1..A.n :
             A.state[u] \in isinit =>
                 Cardinality({ed \in succ(mach, Sinit) :
                                 ed.label = LabelOf(A.state[u])}) = 1

C9_Witness ==
    /\ Built
    /\ \E u, v \in 1..A.n :
         /\ u < v
         /\ A.state[u] = A.state[v]
         /\ A.state[u] \in isinit
         /\ \E ed \in succ(mach, Sinit) : ed.dst = u
         /\ \A ed \in succ(mach, Sinit) : ed.dst # v

C9_WitnessExcluded ==
    /\ Built
    /\ \E u \in 1..A.n : A.state[u] \notin isinit

\* C10: strategy2mealy raises and returns no machine when no strategy node
\* satisfies the initial condition, and a machine it returns has an edge
\* leaving Sinit.
C10_NoInitialStateRaises ==
    (pc = "done" /\ call.op = "strategy2mealy" /\ ~A.none /\ A.n > 0) =>
        /\ (\A u \in 1..A.n : A.state[u] \notin isinit) =>
               /\ ret = "raise"
               /\ err = "NoInitialStates"
               /\ mach = NoMach
        /\ ret = "mach" => \E ed \in mach.edges : ed.src = Sinit

C10_Witness ==
    /\ pc = "done"
    /\ call.op = "strategy2mealy"
    /\ A.n > 0
    /\ isinit = {}
    /\ err = "NoInitialStates"

\* C11 (as stated): the initial_nodes of the machine returned by strategy2mealy,
\* by synthesize and by determinize_machine_init are exactly {Sinit}.
C11_InitialNodesAlwaysSinit ==
    /\ (pc = "done" /\ ret = "mach") => mach.initial_nodes = {Sinit}
    /\ Determinized => dmach.initial_nodes = {Sinit}

\* C11: the initial_nodes of the machine returned by strategy2mealy, and by
\* synthesize without dead-end removal, are exactly {Sinit}; after the dead-end
\* removal of synthesize they are {Sinit} when an edge still leaves Sinit and
\* empty when Sinit itself was removed; determinize_machine_init returns the
\* initial_nodes of the machine it was given.
C11_InitialNodesSinitUnlessPruned ==
    /\ Built => mach.initial_nodes = {Sinit}
    /\ (Synthesized /\ ret = "mach") =>
          /\ ~call.rm_deadends => mach.initial_nodes = {Sinit}
          /\ call.rm_deadends =>
                mach.initial_nodes =
                    IF \E ed \in mach.edges : ed.src = Sinit THEN {Sinit} ELSE {}
    /\ Determinized =>
          /\ dmach.initial_nodes = mach.initial_nodes
          /\ dmach.initial_nodes \subseteq {Sinit}

\* synthesize removed dead ends and Sinit is still the initial node
C11_Witness ==
    /\ Synthesized
    /\ ret = "mach"
    /\ call.rm_deadends
    /\ Cardinality(mach.nodes) < A.n + 1
    /\ mach.initial_nodes = {Sinit}

\* synthesize removed Sinit with the dead ends
C11_WitnessPruned ==
    /\ Synthesized
    /\ ret = "mach"
    /\ call.rm_deadends
    /\ mach.initial_nodes = {}

C11_WitnessDeterminized ==
    /\ Determinized
    /\ dmach.edges # mach.edges
    /\ dmach.initial_nodes = {Sinit}

Pruned == pc = "pruned" /\ rxn.op = "remove_deadends"

\* C20: after remove_deadends() returns, every node of the graph has an
\* outgoing edge.
C20_NoDeadendLeft ==
    Pruned => \A n \in mach.nodes : \E ed \in mach.edges : ed.src = n

\* a node that had a successor before the call was removed with it
C20_Witness ==
    /\ Pruned
    /\ mach.nodes # {}
    /\ \E n \in rxn.before.nodes \ mach.nodes :
         \E ed \in rxn.before.edges : ed.src = n

GuidedRan == pc = "ran" /\ rxn.op = "guided_run"

\* the sequences name every input port and have one common length
WellFormed(m, seqs) ==
    /\ DOMAIN m.inputs \subseteq DOMAIN seqs
    /\ \A a, b \in DOMAIN seqs : Len(seqs[a]) = Len(seqs[b])

\* the states a run without from_state starts from, else from_state
Starts(m, from_state) ==
    IF from_state.none THEN m.initial_nodes ELSE {from_state.state}

\* r holds n states and n values per output port, and its i-th state and values
\* are the target and the output values of the only edge that leaves the
\* state before (start for the first) with the inputs at index i
IsRunFrom(m, start, seqs, n, r) ==
    /\ Len(r.states) = n
    /\ \A k \in DOMAIN m.outputs : Len(r.outputs[k]) = n
    /\ \A i \in 1..n :
         LET prev == IF i = 1 THEN start ELSE r.states[i - 1]
             inp == [k \in DOMAIN seqs |-> seqs[k][i]]
             en == {ed \in m.edges :
                      /\ ed.src = prev
                      /\ [k \in DOMAIN m.inputs |-> ed.label[k]] = inp}
         IN \E ed \in en :
              /\ en = {ed}
              /\ r.states[i] = ed.dst
              /\ \A k \in DOMAIN m.outputs : r.outputs[k][i] = ed.label[k]

\* C12: a guided run that returns, for sequences of common length n, returns
\* n states, the start state not among them by position, and n values per
\* output port, step i being the reaction of the state before to the inputs
\* at index i.
C12_GuidedRunStepwise ==
    (GuidedRan /\ rxn.result.ret = "ok") =>
        /\ WellFormed(mach, rxn.input_sequences)
        /\ \E start \in Starts(mach, rxn.from_state) :
             \A k \in DOMAIN rxn.input_sequences :
                 IsRunFrom(mach, start, rxn.input_sequences,
                           Len(rxn.input_sequences[k]), rxn.result)

\* a run of two steps on different inputs through different states
C12_Witness ==
    /\ GuidedRan
    /\ rxn.result.ret = "ok"
    /\ ~rxn.from_state.none
    /\ Len(rxn.result.states) = 2
    /\ rxn.result.states[1] # rxn.from_state.state
    /\ rxn.result.states[2] # rxn.result.states[1]
    /\ rxn.input_sequences["e"][1] # rxn.input_sequences["e"][2]

\* C13: guided_run raises without calling reaction when an input port has no
\* sequence or the sequences differ in length; it returns no shortened run.
C13_MalformedSequencesRaise ==
    (GuidedRan /\ ~WellFormed(mach, rxn.input_sequences)) =>
        /\ rxn.result.ret = "raise"
        /\ rxn.result.reactions = 0
        /\ rxn.result.states = <<>>

\* sequences of different lengths, every input port among them
C13_Witness ==
    /\ GuidedRan
    /\ DOMAIN mach.inputs \subseteq DOMAIN rxn.input_sequences
    /\ \E a, b \in DOMAIN rxn.input_sequences :
         /\ Len(rxn.input_sequences[a]) = 2
         /\ Len(rxn.input_sequences[b]) = 0
    /\ rxn.result.err = "ValueError"

\* an input port without a sequence
C13_WitnessMissing ==
    /\ GuidedRan
    /\ "e" \in DOMAIN mach.inputs
    /\ DOMAIN rxn.input_sequences = {"x"}
    /\ rxn.result.ret = "raise"

\* the states with an edge from Sinit
SinitSuccessors(m) == {ed.dst : ed \in {x \in m.edges : x.src = Sinit}}

\* C14 (as stated): without a start state, guided_run starts from the only
\* successor state of Sinit and fails when Sinit has several.
C14_StartsFromSoleSuccessor ==
    (GuidedRan /\ rxn.from_state.none /\ mach \in Machines
        /\ WellFormed(mach, rxn.input_sequences)
        /\ DOMAIN rxn.input_sequences = DOMAIN mach.inputs) =>
        /\ Cardinality(SinitSuccessors(mach)) > 1 => rxn.result.ret = "raise"
        /\ (Cardinality(SinitSuccessors(mach)) = 1 /\ rxn.result.ret = "ok") =>
              \E u \in SinitSuccessors(mach) :
                  IsRunFrom(mach, u, rxn.input_sequences,
                            Len(rxn.input_sequences["e"]), rxn.result)

\* C14: without a start state, guided_run starts from an initial node of the
\* machine, which is Sinit itself and not a successor of it; it raises when
\* the machine has no initial node, and with several initial nodes it starts
\* from one of them and does not fail for the ambiguity.
C14_StartsFromInitialNode ==
    (GuidedRan /\ rxn.from_state.none /\ mach \in Machines
        /\ WellFormed(mach, rxn.input_sequences)
        /\ DOMAIN rxn.input_sequences = DOMAIN mach.inputs) =>
        /\ mach.initial_nodes = {} =>
              rxn.result.ret = "raise" /\ rxn.result.reactions = 0
        /\ rxn.result.ret = "ok" =>
              \E start \in mach.initial_nodes :
                  IsRunFrom(mach, start, rxn.input_sequences,
                            Len(rxn.input_sequences["e"]), rxn.result)
        /\ (mach.initial_nodes # {} /\ Len(rxn.input_sequences["e"]) = 0) =>
              rxn.result.ret = "ok"
        /\ (mach.initial_nodes # {} /\ rxn.result.ret = "raise") =>
              rxn.result.reactions > 0

\* Sinit is the initial node, its only successor is another state, and the
\* run takes the edge of Sinit first
C14_Witness ==
    /\ GuidedRan
    /\ rxn.from_state.none
    /\ mach \in Machines
    /\ mach.initial_nodes = {Sinit}
    /\ SinitSuccessors(mach) = {1}
    /\ rxn.result.ret = "ok"
    /\ Len(rxn.result.states) = 2
    /\ rxn.result.states[1] = 1

\* several initial nodes and the run returns
C14_WitnessAmbiguous ==
    /\ GuidedRan
    /\ rxn.from_state.none
    /\ Cardinality(mach.initial_nodes) > 1
    /\ rxn.result.ret = "ok"
    /\ Len(rxn.result.states) > 0

C15_WitnessRaise ==
    /\ GuidedRan
    /\ rxn.runs = 2
    /\ ~rxn.from_state.none
    /\ rxn.again.ret = "raise"
    /\ rxn.again.err = "reaction"
    /\ \E a, b \in mach.edges :
         a # b /\ a.src = rxn.from_state.state /\ b.src = a.src

\* C16: on the traffic light, which has no input port, a guided run of three
\* steps from green returns the states red, green, red and three values of go,
\* those of the edges taken.
C16_TrafficLightRun ==
    (GuidedRan /\ mach \in TrafficLights
        /\ rxn.from_state = [none |-> FALSE, state |-> green]
        /\ \A k \in DOMAIN rxn.input_sequences :
              Len(rxn.input_sequences[k]) = 3) =>
        /\ rxn.result.ret = "ok"
        /\ rxn.result.states = <<red, green, red>>
        /\ rxn.result.outputs["go"] = <<0, 1, 0>>

RandomRan == pc = "ran" /\ rxn.op = "random_run"

\* C17: on a machine where every state reachable from the start state has an
\* outgoing edge, random_run(mealy, from_state, N) returns N states and N
\* values per output port, each state the target of an edge of the state
\* before and the output values those of that edge.
C17_RandomRunNeverBlocks ==
    (RandomRan /\ ~rxn.from_state.none
        /\ \A q \in ReachFrom(mach, {rxn.from_state.state}) :
              \E ed \in mach.edges : ed.src = q) =>
        /\ rxn.result.ret = "ok"
        /\ Len(rxn.result.states) = rxn.N
        /\ \A k \in DOMAIN mach.outputs : Len(rxn.result.outputs[k]) = rxn.N
        /\ \A i \in 1..rxn.N :
             \E ed \in mach.edges :
                 /\ ed.src = (IF i = 1 THEN rxn.from_state.state
                              ELSE rxn.result.states[i - 1])
                 /\ ed.dst = rxn.result.states[i]
                 /\ \A k \in DOMAIN mach.outputs :
                      rxn.result.outputs[k][i] = ed.label[k]

Interacted == pc = "interacted" /\ rxn.op = "interactive_run"

\* C18: interactive_run ends by returning when the current state has no
\* outgoing transitions, and a step leaves its selection loop once the
\* operator has typed a valid selection or declined.
C18_InteractiveRunTerminates ==
    /\ (Interacted /\ ~rxn.from_state.none
          /\ \A ed \in mach.edges : ed.src # rxn.from_state.state) =>
          rxn.result.ret = "return"
    /\ (pc = "selecting" /\ rxn.asks > 0) =>
          rxn.id_selected \notin {"", "0"}

\* C19: a step of interactive_run on a state with outgoing transitions, the
\* operator selecting one, makes the target of a transition of that state the
\* next current state.
C19_InteractiveStepMoves ==
    (Interacted /\ ~rxn.from_state.none /\ rxn.id_selected = "0"
        /\ \E ed \in mach.edges : ed.src = rxn.from_state.state) =>
        /\ Len(rxn.result.current) >= 2
        /\ \E ed \in mach.edges :
             /\ ed.src = rxn.result.current[1]
             /\ ed.dst = rxn.result.current[2]

PrunedAgain == pc = "pruned_again" /\ rxn.op = "remove_deadends"

\* C21: remove_deadends() applied to a graph on which it was just applied
\* leaves the nodes, the edges and the initial nodes as they were.
C21_RemoveDeadendsIdempotent ==
    PrunedAgain =>
        /\ mach.nodes = rxn.before.nodes
        /\ mach.edges = rxn.before.edges
        /\ mach.initial_nodes = rxn.before.initial_nodes

\* the second application, on a graph that the first left with nodes and edges
C21_Witness ==
    /\ PrunedAgain
    /\ mach.nodes # {}
    /\ mach.edges # {}
    /\ Sinit \in mach.nodes

\* C22: after every round of remove_deadends(), and so when it returns, the
\* initial nodes are among the nodes of the graph.
C22_InitialNodesSubset ==
    (pc \in {"pruned", "pruned_again"} /\ rxn.op = "remove_deadends") =>
        /\ \A i \in 1..Len(rxn.rounds) :
             rxn.rounds[i].initial_nodes \subseteq rxn.rounds[i].nodes
        /\ mach.initial_nodes \subseteq mach.nodes
        /\ mach = rxn.rounds[Len(rxn.rounds)]

\* a round removed the initial node, after a round that had not
C22_Witness ==
    /\ Pruned
    /\ \E i \in 2..Len(rxn.rounds) :
         /\ Sinit \in rxn.rounds[i - 1].initial_nodes
         /\ Sinit \notin rxn.rounds[i].nodes
         /\ rxn.rounds[i].initial_nodes = {}

\* C23: every state of the machine returned by synthesize with
\* rm_deadends=True has an outgoing edge.
C23_SynthesizedHasNoTerminalState ==
    (Synthesized /\ ret = "mach" /\ call.rm_deadends) =>
        \A n \in mach.nodes : \E ed \in mach.edges : ed.src = n

\* the strategy had a node without successors, and what is returned has states
C23_Witness ==
    /\ Synthesized
    /\ ret = "mach"
    /\ call.rm_deadends
    /\ \E u \in 1..A.n : \A ed \in A.edges : ed[1] # u
    /\ mach.nodes # {}

\* the label asked for: the keyword arguments over the dict given
Filter ==
    [k \in (IF rxn.with_attr_dict.none THEN {} ELSE DOMAIN rxn.with_attr_dict.val)
            \cup DOMAIN rxn.with_attr |->
        IF k \in DOMAIN rxn.with_attr THEN rxn.with_attr[k]
        ELSE rxn.with_attr_dict.val[k]]

FoundTransitions == pc = "found" /\ rxn.op = "transitions.find"

\* the edges of mach from from_states to to_states
Between ==
    {ed \in mach.edges :
        /\ rxn.from_states.none \/ ed.src \in rxn.from_states.val
        /\ rxn.to_states.none \/ ed.dst \in rxn.to_states.val}

\* C24: transitions.find asked for a non-empty label returns no edge without
\* attributes; asked for no label it returns every edge from from_states to
\* to_states.
C24_UnlabeledEdgeNeverMatches ==
    FoundTransitions =>
        /\ DOMAIN Filter # {} =>
              \A ed \in rxn.result : DOMAIN ed.label # {}
        /\ DOMAIN Filter = {} => rxn.result = Between

FoundStates == pc = "found" /\ rxn.op = "states.find"

\* the candidate states: all when states is None, the state when a single
\* state is given
Candidates == IF rxn.states.none THEN mach.nodes ELSE rxn.states.val

\* C25: states.find returns the pairs (node, attributes) of exactly the
\* candidate nodes whose attributes have, under every key of the filter, the
\* value of the filter; with an empty filter, of every candidate node.
C25_FindStatesExact ==
    FoundStates =>
        /\ DOMAIN rxn.result =
              {n \in Candidates \cap mach.nodes :
                  \A k \in DOMAIN Filter :
                      k \in DOMAIN mach.node[n] /\ mach.node[n][k] = Filter[k]}
        /\ \A n \in DOMAIN rxn.result : rxn.result[n] = mach.node[n]
        /\ DOMAIN Filter = {} => DOMAIN rxn.result = Candidates \cap mach.nodes

\* a filter that keeps one candidate and drops another, the keyword argument
\* overriding the dict given
C25_Witness ==
    /\ FoundStates
    /\ ~rxn.with_attr_dict.none
    /\ rxn.with_attr_dict.val = [a |-> 0]
    /\ rxn.with_attr = [a |-> 1]
    /\ Candidates = FindNodes
    /\ Cardinality(DOMAIN rxn.result) = 1
    /\ \E n \in FindNodes : DOMAIN mach.node[n] = {}

\* every candidate found with an empty filter
C25_WitnessEmptyFilter ==
    /\ FoundStates
    /\ DOMAIN Filter = {}
    /\ rxn.states = [none |-> FALSE, single |-> TRUE, val |-> {1}]
    /\ DOMAIN rxn.result = {1}

Checked == pc = "checked" /\ rxn.op = "check_sanity"

\* the nodes named in the accepting set, or in the sets of the list
Referenced ==
    IF mach.acceptance \in BuchiFamily
    THEN {Atom(a) : a \in mach.accepting_sets.of}
    ELSE UNION {{Atom(a) : a \in mach.accepting_sets[i].of} :
                  i \in 1..Len(mach.accepting_sets)}

\* C26: for the Buchi family, Muller and generalized Buchi, check_sanity()
\* tests the nodes of the accepting set, or of every set of the list, one by
\* one: it succeeds when all of them are nodes of the automaton and fails
\* when one is not.
C26_SanityChecksReferencedNodes ==
    (Checked /\ mach.acceptance \in BuchiFamily \cup ListFamily) =>
        (rxn.result = "True" <=> Referenced \subseteq mach.nodes)

C27_WitnessTrue ==
    /\ Checked
    /\ mach.acceptance = "Streett"
    /\ Len(mach.accepting_sets) = 2
    /\ "<>[]!" \in DOMAIN mach.accepting_sets[2]
    /\ mach.accepting_sets[2]["<>[]!"].of = {2}
    /\ rxn.result = "True"

\* an entry with a third key
C27_WitnessExtraKey ==
    /\ Checked
    /\ mach.acceptance = "Rabin"
    /\ Len(mach.accepting_sets) = 1
    /\ DOMAIN mach.accepting_sets[1] = {"[]<>", "<>[]!", "extra"}
    /\ rxn.result = "AssertionError"

\* a node named under '<>[]!' that the automaton does not have
C27_WitnessMissingNode ==
    /\ Checked
    /\ mach.acceptance = "Rabin"
    /\ Len(mach.accepting_sets) = 1
    /\ DOMAIN mach.accepting_sets[1] = {"[]<>", "<>[]!"}
    /\ mach.accepting_sets[1]["[]<>"].of = {}
    /\ mach.accepting_sets[1]["<>[]!"].of = {2}
    /\ Atom(2) \notin mach.nodes
    /\ rxn.result = "AssertionError"

\* C28: Automaton(acceptance) raises exactly for an acceptance that is none of
\* the known; for a known one the accepting_sets it starts with are an empty
\* set, an empty list or a pair, as the acceptance asks; check_sanity()
\* raises when the acceptance was later set to an unknown value.
C28_UnknownAcceptanceRejected ==
    /\ (pc \in {"done", "built"} /\ call.op = "Automaton") =>
          /\ call.acceptance \notin Acceptances <=> ret = "raise"
          /\ ret = "raise" => mach = NoMach
          /\ ret = "mach" =>
                /\ mach.acceptance = call.acceptance
                /\ mach.acceptance \in BuchiFamily =>
                      /\ mach.accepting_sets.kind = "set"
                      /\ mach.accepting_sets.of = {}
                /\ mach.acceptance \in ListFamily \cup PairsFamily =>
                      Len(mach.accepting_sets) = 0
                /\ mach.acceptance = "parity" => Len(mach.accepting_sets) = 2
    /\ Checked =>
          /\ mach.acceptance \notin Acceptances => rxn.result = "Exception"
          /\ (rxn.fresh /\ mach.acceptance \in Acceptances) => rxn.result = "True"

\* the constructor raised
C28_Witness ==
    /\ pc = "done"
    /\ call.op = "Automaton"
    /\ call.acceptance = "other"
    /\ ret = "raise"

\* check_sanity raised for an acceptance assigned after construction
C28_WitnessAssigned ==
    /\ Checked
    /\ mach.acceptance = "other"
    /\ rxn.result = "Exception"

\* mealy2moore has returned a Moore machine for the machine held
Converted == pc = "converted" /\ rxn.result.ret = "ok"

RECURSIVE ReachableFrom(_, _)
ReachableFrom(m, R) ==
    LET more == R \cup {ed.dst : ed \in {x \in m.edges : x.src \in R}} IN
    IF more = R THEN R ELSE ReachableFrom(m, more)

\* the (Mealy state, incoming output valuation) pairs reachable from s0
\* entered with the outputs out
ReachablePairs(m, s0, out) ==
    {<<s0, out>>} \cup
    {<<ed.dst, project_dict(ed.label, m.outputs)>> :
        ed \in {x \in m.edges : x.src \in ReachableFrom(m, {s0})}}

\* C30: mealy2moore creates exactly one Moore state for each (Mealy state,
\* incoming output valuation) pair reachable from the initial state, the
\* initial state counting with the outputs chosen for it: every Moore state
\* belongs to exactly one Mealy state, and two distinct Moore states of the
\* same Mealy state carry different output valuations.
C30_OneMooreStatePerPair ==
    Converted =>
        LET cv == rxn.result.cv
            pair(n) == <<cv.moore2mealy_states[n], cv.moore.node[n]>>
        IN /\ DOMAIN cv.moore2mealy_states = cv.moore.nodes
           /\ DOMAIN cv.moore.node = cv.moore.nodes
           /\ \A n \in cv.moore.nodes :
                /\ cv.moore2mealy_states[n] \in mach.nodes
                /\ \A q \in mach.nodes :
                     n \in cv.mealy2moore_states[q]
                        <=> q = cv.moore2mealy_states[n]
           /\ {pair(n) : n \in cv.moore.nodes}
                = ReachablePairs(mach, rxn.result.s0, rxn.result.out)
           /\ \A n1 \in cv.moore.nodes : \A n2 \in cv.moore.nodes :
                pair(n1) = pair(n2) => n1 = n2

\* a Mealy state entered with two output valuations got two Moore states
C30_Witness ==
    /\ Converted
    /\ \E q \in mach.nodes :
         Cardinality(rxn.result.cv.mealy2moore_states[q]) >= 2

\* a Mealy state entered twice with the same outputs got one Moore state
C30_WitnessShared ==
    /\ Converted
    /\ \E e1 \in mach.edges : \E e2 \in mach.edges :
         /\ e1 # e2
         /\ e1.dst = e2.dst
         /\ e1.label.s = e2.label.s
         /\ {e1.src, e2.src} \subseteq ReachableFrom(mach, {rxn.result.s0})
         /\ Cardinality(rxn.result.cv.moore.nodes) = 2

\* C29: moore2mealy returns a Mealy machine in which every edge leaving a
\* state carries the output valuation of that Moore state, and every edge
\* of the Moore machine has such an edge.
C29_EdgesCarrySourceOutputs ==
    pc = "reconverted" =>
        /\ rxn.result.ret = "ok"
        /\ \A ed \in rxn.result.mealy.edges :
             project_dict(ed.label, rxn.moore.outputs) = rxn.moore.node[ed.src]
        /\ \A ed \in rxn.moore.edges :
             \E x \in rxn.result.mealy.edges :
                x.src = ed.src /\ x.dst = ed.dst

\* C31: the Moore machine returned by mealy2moore outputs the Mealy output
\* one reaction later: every Moore edge u -> v labeled with the inputs i
\* comes from a Mealy edge between the Mealy states of u and v with the
\* inputs i and the outputs that label v, every Mealy edge leaving the Mealy
\* state of a Moore state is the origin of such a Moore edge, and the
\* initial Moore state is labeled with one value of the domain of each
\* output port.
C31_MooreOutputsOneReactionLater ==
    Converted =>
        LET cv == rxn.result.cv
            moore == cv.moore
            mealy_state(n) == cv.moore2mealy_states[n]
            origin(x, ed) ==
                /\ ed.src = mealy_state(x.src)
                /\ ed.dst = mealy_state(x.dst)
                /\ project_dict(ed.label, mach.inputs) = x.label
                /\ project_dict(ed.label, mach.outputs) = moore.node[x.dst]
        IN /\ \A x \in moore.edges : \E ed \in mach.edges : origin(x, ed)
           /\ \A u \in moore.nodes : \A ed \in succ(mach, mealy_state(u)) :
                \E x \in succ(moore, u) : origin(x, ed)
           /\ \A n \in moore.initial_nodes :
                /\ DOMAIN moore.node[n] = DOMAIN mach.outputs
                /\ \A k \in DOMAIN mach.outputs :
                     moore.node[n][k] \in mach.outputs[k]
           /\ Cardinality(moore.initial_nodes) = 1

\* a Moore machine with an edge between two different Moore states
C31_Witness ==
    /\ Converted
    /\ \E x \in rxn.result.cv.moore.edges : x.src # x.dst

\* a constructor of a game graph has run
GameConstructed == pc = "done" /\ call.op \in {"GameGraph", "ParityGame"}

\* C32: constructing a game graph gives a graph whose nodes all have a
\* player in {0, 1}; player_states(n) is the set of nodes whose player is n,
\* so that player_states(0) and player_states(1) partition the nodes, and
\* edge_controlled_by(e) is the player of the source node of e.
C32_PlayersPartitionNodes ==
    GameConstructed =>
        /\ ret = "mach"
        /\ \E i \in DOMAIN mach.node_label_types :
             mach.node_label_types[i] = player_label_type
        /\ \A x \in mach.nodes : mach.node[x].player \in {0, 1}
        /\ \A n \in {0, 1} :
             /\ player_states(mach, n).ret = "ok"
             /\ player_states(mach, n).states
                    = {x \in mach.nodes : mach.node[x].player = n}
        /\ player_states(mach, 0).states \cup player_states(mach, 1).states
                = mach.nodes
        /\ player_states(mach, 0).states \cap player_states(mach, 1).states
                = {}
        /\ \A ed \in mach.edges :
             edge_controlled_by(mach, <<ed.src, ed.dst>>).player
                = mach.node[ed.src].player

\* the attributes attr give a declared variable of g a value outside its domain
OutOfDomain(g, attr) ==
    \E k \in DOMAIN attr \cap DOMAIN g.vars :
        LET d == g.vars[k] val == attr[k] IN
        \/ d.type = "boolean" /\ (val.kind # "int" \/ val.v \notin {0, 1})
        \/ d.type = "range"
             /\ (val.kind # "int" \/ val.v < d.lo \/ val.v > d.hi)
        \/ d.type = "list" /\ val \notin d.values

\* C33: is_consistent() returns True exactly when the owner is env or sys,
\* env_vars is a subset of vars, and no node and no edge gives a declared
\* variable a value outside its domain; adding an edge with such a value to
\* a consistent transition system makes is_consistent() fail, and
\* sys_to_spec refuses an inconsistent transition system.
C33_ConsistentIffInDomains ==
    /\ (pc = "checked") =>
         (rxn.result = "True" <=>
            /\ mach.owner \in {"env", "sys"}
            /\ mach.env_vars \subseteq DOMAIN mach.vars
            /\ \A x \in mach.nodes : ~OutOfDomain(mach, mach.node[x])
            /\ \A ed \in mach.edges : ~OutOfDomain(mach, ed.label))
    /\ (pc = "held" /\ call.op = "add_edge") =>
         /\ (rxn.before = "True" /\ OutOfDomain(mach, rxn.label))
                => rxn.after = "AssertionError"
         /\ (rxn.before = "True" /\ ~OutOfDomain(mach, rxn.label))
                => rxn.after = "True"
    /\ (pc = "spec" /\ is_consistent(mach) # "True") =>
         (rxn.result.ret = "raise" /\ rxn.result.err = "AssertionError")

\* an edge giving the boolean p the string 'a' was added to a consistent
\* transition system
C33_Witness ==
    /\ pc = "held"
    /\ call.op = "add_edge"
    /\ rxn.before = "True"
    /\ rxn.after = "AssertionError"
    /\ "p" \in DOMAIN rxn.label
    /\ rxn.label.p = StrVal(0)

\* is_consistent() returned True for a transition system with a labeled edge
C33_WitnessTrue ==
    /\ pc = "checked"
    /\ rxn.result = "True"
    /\ \E ed \in mach.edges : DOMAIN ed.label \cap DOMAIN mach.vars # {}

\* C34: sys_to_spec returns a specification in which the node variable
\* belongs to the owner of the transition system: a system variable with
\* system constraints for owner 'sys', an environment variable with
\* environment constraints for owner 'env', never both; any other owner
\* is rejected with an exception.
C34_NodeVariableOfOwner ==
    (pc = "spec") =>
        LET r == rxn.result IN
        /\ mach.owner \notin {"env", "sys"} => r.ret = "raise"
        /\ (mach.owner \in {"env", "sys"} /\ is_consistent(mach) = "True") =>
             /\ r.ret = "ok"
             /\ mach.owner = "sys" =>
                    /\ call.nodevar \in r.sys_vars
                    /\ call.nodevar \notin r.env_vars
                    /\ r.env_init = {}
             /\ mach.owner = "env" =>
                    /\ call.nodevar \in r.env_vars
                    /\ call.nodevar \notin r.sys_vars
                    /\ r.sys_init = {}
                    /\ r.sys_safety = {}

\* the product computed in this state, as an automaton or a transition system
Product == IF pc = "ba_ts" THEN rxn.ba_ts ELSE rxn.result.ts_ba

\* C35: the states of the synchronous product are pairs (ts state, automaton
\* state); from a product state (s, q) there is an edge to (s', q') exactly
\* when the transition system has an edge s -> s' and the automaton an
\* edge q -> q' whose guard is the set of atomic propositions labeling s',
\* and the product edge carries that labeling as its guard.
C35_ProductEdges ==
    (pc \in {"ba_ts", "ts_ba"}) =>
        /\ Product.nodes \subseteq PTSNodes \X PBANodes
        /\ \A n \in Product.nodes : \A s \in PTSNodes : \A q \in PBANodes :
             (\E ed \in Product.edges : ed.src = n /\ ed.dst = <<s, q>>)
             <=> /\ <<n[1], s>> \in mach.edges
                 /\ \E b \in det.edges :
                      b.src = n[2] /\ b.dst = q /\ b.guard = mach.ap[s]
        /\ \A ed \in Product.edges :
             /\ ed.src \in Product.nodes
             /\ ed.dst \in Product.nodes
             /\ ed.guard = mach.ap[ed.dst[1]]

\* the product that check_prodba expects for ts_test: four states, and the
\* guards set(), set(), set(), {p} around the cycle
C35_Witness ==
    /\ pc = "ba_ts"
    /\ rxn.ba_ts.nodes = {<<0, 1>>, <<1, 0>>, <<2, 0>>, <<3, 0>>}
    /\ rxn.ba_ts.edges =
         {[src |-> <<0, 1>>, dst |-> <<1, 0>>, guard |-> {}],
          [src |-> <<1, 0>>, dst |-> <<2, 0>>, guard |-> {}],
          [src |-> <<2, 0>>, dst |-> <<3, 0>>, guard |-> {}],
          [src |-> <<3, 0>>, dst |-> <<0, 1>>, guard |-> {"p"}]}

C37_DeterminizeFrame ==
    [][(pc = "held" /\ pc' = "det") =>
        /\ mach' = mach
        /\ dmach'.nodes = mach.nodes
        /\ dmach'.inputs = mach.inputs
        /\ dmach'.outputs = mach.outputs
        /\ dmach'.initial_nodes = mach.initial_nodes
        /\ \A u \in mach.nodes \ {Sinit} : succ(dmach', u) = succ(mach, u)
        /\ succ(dmach', Sinit) \subseteq succ(mach, Sinit)]_vars

\* an edge out of Sinit was removed from a machine that has edges out of
\* other nodes with equal inputs
C37_Witness ==
    /\ pc = "det"
    /\ succ(dmach, Sinit) # succ(mach, Sinit)
    /\ \E e1 \in mach.edges : \E e2 \in mach.edges :
         /\ e1 # e2
         /\ e1.src # Sinit
         /\ e2.src # Sinit
         /\ in_values(e1.label, mach.inputs) = in_values(e2.label, mach.inputs)

\* the node c of m lies on a cycle
OnCycle(m, c) == c \in ReachableFrom(m, {ed.dst : ed \in succ(m, c)})

\* an infinite path of m starts at n: n lies on a cycle or reaches one
CanReachCycle(m, n) == \E c \in ReachableFrom(m, {n}) : OnCycle(m, c)

\* C38: remove_deadends() keeps exactly the nodes that lie on a cycle or can
\* reach one, and every edge between two nodes that it keeps, with its label.
C38_KeepsNodesWithInfinitePath ==
    (pc \in {"pruned", "pruned_again"} /\ rxn.op = "remove_deadends") =>
        /\ mach.nodes = {n \in rxn.before.nodes : CanReachCycle(rxn.before, n)}
        /\ mach.edges = {ed \in rxn.before.edges :
                            ed.src \in mach.nodes /\ ed.dst \in mach.nodes}

\* a node off every cycle was kept because it reaches one, and another node
\* was removed
C38_Witness ==
    /\ Pruned
    /\ \E n \in mach.nodes : ~OnCycle(rxn.before, n)
    /\ mach.nodes # rxn.before.nodes

\* C39: remove_deadends() terminates: the body of its loop runs at most once
\* more than the graph has nodes, every run but the last removes a node, and
\* the last finds none to remove and leaves the graph that is returned.
C39_RoundsBounded ==
    (pc \in {"pruned", "pruned_again"} /\ rxn.op = "remove_deadends") =>
        LET rounds == rxn.rounds
            before(i) == IF i = 1 THEN rxn.before ELSE rounds[i - 1]
        IN /\ Len(rounds) >= 1
           /\ Len(rounds) <= Cardinality(rxn.before.nodes) + 1
           /\ \A i \in 1..(Len(rounds) - 1) :
                /\ rounds[i].nodes \subseteq before(i).nodes
                /\ rounds[i].nodes # before(i).nodes
           /\ rounds[Len(rounds)].nodes = before(Len(rounds)).nodes
           /\ mach = rounds[Len(rounds)]

\* an acyclic graph was emptied one node a round
C39_Witness ==
    /\ Pruned
    /\ Cardinality(rxn.before.nodes) >= 3
    /\ Len(rxn.rounds) = Cardinality(rxn.before.nodes) + 1
    /\ mach.nodes = {}

\* the empty graph takes one round
C39_WitnessEmpty ==
    /\ PrunedAgain
    /\ rxn.before.nodes = {}
    /\ Len(rxn.rounds) = 1

\* a graph whose only edges are self-loops keeps the nodes that have one
C39_WitnessSelfLoop ==
    /\ Pruned
    /\ mach.nodes # {}
    /\ \A ed \in rxn.before.edges : ed.src = ed.dst

\* C40: moore2mealy returns a Mealy machine with the input ports, the output
\* ports, the nodes and the initial nodes of the Moore machine, and with one
\* edge u -> v for every Moore edge u -> v, carrying its input labels.
C40_Moore2MealyFrame ==
    (pc = "reconverted") =>
        LET moore == rxn.moore
            mealy == rxn.result.mealy
        IN /\ rxn.result.ret = "ok"
           /\ mealy.inputs = moore.inputs
           /\ mealy.outputs = moore.outputs
           /\ mealy.nodes = moore.nodes
           /\ mealy.initial_nodes = moore.initial_nodes
           /\ \A ed \in moore.edges : \E x \in mealy.edges :
                /\ x.src = ed.src
                /\ x.dst = ed.dst
                /\ project_dict(x.label, moore.inputs) = ed.label
           /\ Cardinality(mealy.edges) = Cardinality(moore.edges)

====
